---- MODULE Spec2Model ----
(***************************************************************************)
(* Aqua Park: the deterministic simulation layer.                          *)
(*                                                                         *)
(* The module models the physics engine (src/src/game/engine.ts), the      *)
(* simulation Driver (GameScene.update in                                  *)
(* src/src/game/scenes/GameScene.ts), the track model and the replay codec *)
(* (src/unnamed/part_001), the replay launchers of ReplayScene and the bot *)
(* controller (src/src/ai/botController.ts).                               *)
(*                                                                         *)
(* Numbers.  The program computes in IEEE-754 doubles.                     *)
(*  - Times (elapsedTime, the countdown timers, finishTime) are modelled   *)
(*    exactly: a time is a non-negative multiple of 2^-58 s held in four   *)
(*    base-2^15 limbs, and every addition, subtraction and product is      *)
(*    rounded to 53 significant bits, ties to even, as the hardware does.  *)
(*    So FIXED_DT is the double nearest 1/60, and 0.4 s of stun lasts 25   *)
(*    ticks, not 24.                                                       *)
(*  - Speeds and positions are fixed point: a speed is a multiple of       *)
(*    1/SpeedScale units per second and a position a multiple of           *)
(*    1/(SpeedScale*TicksPerSecond) units, so that x += lateralSpeed * dt  *)
(*    is exact; products with the friction factors are truncated.          *)
(*  - The 32-bit state of SeededRNG is held in two 16-bit halves and the   *)
(*    comparisons next() < p are done in exact rational arithmetic.        *)
(***************************************************************************)
EXTENDS Integers, Sequences, FiniteSets, TLC

(***************************************************************************)
(* PHYSICS constants (engine.ts)                                           *)
(***************************************************************************)
TicksPerSecond == 60
LANE_WIDTH == 50
FORWARD_ACCEL == 120
MAX_FORWARD_SPEED == 400
LATERAL_SPEED == 280
LATERAL_ACCEL == 1200
LATERAL_FRICTION == 800
COLLISION_PUSH == 150
COLLISION_RADIUS == 20
LANDING_BOOST == 30
SLIDE_WIDTH == 250

\* fixed-point scales
SpeedScale == 12
PosScale == SpeedScale * TicksPerSecond

(***************************************************************************)
(* IEEE-754 doubles that are multiples of 2^-58, as four base-2^15 limbs,  *)
(* least significant first; the top limb is not bounded by the base.       *)
(***************************************************************************)
LimbBase == 32768

Pow2(k) == IF k <= 0 THEN 1
           ELSE IF k = 1 THEN 2 ELSE IF k = 2 THEN 4 ELSE IF k = 3 THEN 8
           ELSE IF k = 4 THEN 16 ELSE IF k = 5 THEN 32 ELSE IF k = 6 THEN 64
           ELSE IF k = 7 THEN 128 ELSE IF k = 8 THEN 256 ELSE IF k = 9 THEN 512
           ELSE IF k = 10 THEN 1024 ELSE IF k = 11 THEN 2048
           ELSE IF k = 12 THEN 4096 ELSE IF k = 13 THEN 8192 ELSE 16384

DZero == <<0, 0, 0, 0>>

DNorm(a) ==
  LET t1 == a[2] + (a[1] \div LimbBase)
      t2 == a[3] + (t1 \div LimbBase)
      t3 == a[4] + (t2 \div LimbBase)
  IN  <<a[1] % LimbBase, t1 % LimbBase, t2 % LimbBase, t3>>

DLt(a, b) ==
  \/ a[4] < b[4]
  \/ a[4] = b[4] /\ a[3] < b[3]
  \/ a[4] = b[4] /\ a[3] = b[3] /\ a[2] < b[2]
  \/ a[4] = b[4] /\ a[3] = b[3] /\ a[2] = b[2] /\ a[1] < b[1]

DLe(a, b) == ~DLt(b, a)

DPos(a) == a # DZero

\* round to 53 significant bits, ties to even
DRound(a) ==
  LET k == IF a[4] < 256 THEN 0
           ELSE IF a[4] < 512 THEN 1 ELSE IF a[4] < 1024 THEN 2
           ELSE IF a[4] < 2048 THEN 3 ELSE IF a[4] < 4096 THEN 4
           ELSE IF a[4] < 8192 THEN 5 ELSE IF a[4] < 16384 THEN 6
           ELSE IF a[4] < 32768 THEN 7 ELSE IF a[4] < 65536 THEN 8
           ELSE IF a[4] < 131072 THEN 9 ELSE IF a[4] < 262144 THEN 10
           ELSE IF a[4] < 524288 THEN 11 ELSE IF a[4] < 1048576 THEN 12
           ELSE IF a[4] < 2097152 THEN 13 ELSE 14
      m == Pow2(k)
      r == a[1] % m
      half == m \div 2
      odd == ((a[1] \div m) % 2) = 1
      up == k > 0 /\ (r > half \/ (r = half /\ odd))
  IN  IF k = 0 THEN a
      ELSE DNorm(<<a[1] - r + (IF up THEN m ELSE 0), a[2], a[3], a[4]>>)

\* a + b in double arithmetic
DAdd(a, b) == DRound(DNorm(<<a[1] + b[1], a[2] + b[2], a[3] + b[3], a[4] + b[4]>>))

\* a - b in double arithmetic, for a >= b
DSub(a, b) ==
  LET d1 == a[1] - b[1]
      w1 == IF d1 < 0 THEN 1 ELSE 0
      d2 == a[2] - b[2] - w1
      w2 == IF d2 < 0 THEN 1 ELSE 0
      d3 == a[3] - b[3] - w2
      w3 == IF d3 < 0 THEN 1 ELSE 0
  IN  DRound(<<d1 + w1 * LimbBase, d2 + w2 * LimbBase, d3 + w3 * LimbBase,
               a[4] - b[4] - w3>>)

\* a * n in double arithmetic, for a small natural n
DMul(a, n) == DRound(DNorm(<<a[1] * n, a[2] * n, a[3] * n, a[4] * n>>))

\* Math.floor of a non-negative double: the unit 1.0 is 2^58 = 2^45 * 8192
DFloor(a) == a[4] \div 8192

\* a number of quarter seconds as a double (exact)
DQuarters(q) == <<0, 0, 0, q * 2048>>

\* FIXED_DT: the double nearest 1/60
FIXED_DT == <<4369, 8738, 17476, 136>>
\* STUN_DURATION: 0.4
STUN_DURATION == <<6560, 13107, 26214, 3276>>
\* STUN_DURATION * 1.5 = 0.6000000000000001
BARREL_STUN == <<26240, 19660, 6553, 4915>>
\* JUMP_DURATION 0.5 and JUMP_DURATION * JUMP_BOOST_MULT 0.75
JUMP_DURATION == DQuarters(2)
JUMP_DURATION_BOOSTED == DQuarters(3)
SPEED_BOOST_DURATION == DQuarters(12)
SHIELD_DURATION == DQuarters(16)
JUMP_BOOST_DURATION == DQuarters(20)

\* timer -= dt, clamped at 0
TimerDec(t) == IF DLe(t, FIXED_DT) THEN DZero ELSE DSub(t, FIXED_DT)

Abs(n) == IF n < 0 THEN -n ELSE n
Min(a, b) == IF a < b THEN a ELSE b
Max(a, b) == IF a > b THEN a ELSE b
\* truncating division (JavaScript keeps the sign; the fixed-point model
\* rounds toward zero)
TDiv(a, b) == IF a >= 0 THEN a \div b ELSE -((-a) \div b)

(***************************************************************************)
(* Values of JavaScript that are not numbers                               *)
(***************************************************************************)
\* a missing property (settings decoded from a URL is the object {})
Undefined == 0 - 1
\* the score computed from an undefined matchLength
NaN == 0 - 2

NoInput == [left |-> FALSE, right |-> FALSE, jump |-> FALSE]

(***************************************************************************)
(* Track model (track.ts, in src/unnamed/part_001)                         *)
(* slope is held in tenths, friction in hundredths, position in hundredths *)
(***************************************************************************)
createSegment(type, length, lanes, friction, slope, obstacles, powerups) ==
  [type |-> type, length |-> length, lanes |-> lanes, friction |-> friction,
   slope |-> slope, obstacles |-> obstacles, powerups |-> powerups]

Obj(type, lane, position) == [type |-> type, lane |-> lane, position |-> position]

getClassicTrack ==
  << createSegment("straight", 400, 5, 98, -5,
       <<Obj("barrel", 1, 50), Obj("barrel", 3, 70)>>,
       <<Obj("speed_boost", 2, 30)>>),
     createSegment("curve_left", 300, 5, 97, -6,
       <<Obj("ring", 0, 40), Obj("bumper", 4, 60)>>, <<>>),
     createSegment("ramp", 200, 5, 99, -10, <<>>,
       <<Obj("jump_boost", 2, 50)>>),
     createSegment("straight", 500, 5, 98, -4,
       <<Obj("barrel", 0, 20), Obj("barrel", 2, 30), Obj("barrel", 4, 40),
         Obj("bumper", 1, 60), Obj("ring", 3, 80)>>,
       <<Obj("speed_boost", 1, 15), Obj("shield", 3, 50)>>),
     createSegment("narrow", 200, 3, 96, -7,
       <<Obj("bumper", 1, 50)>>, <<Obj("speed_boost", 0, 30)>>),
     createSegment("curve_right", 350, 5, 97, -5,
       <<Obj("ring", 2, 30), Obj("barrel", 4, 50), Obj("barrel", 0, 70)>>,
       <<Obj("jump_boost", 2, 60)>>),
     createSegment("ramp", 250, 5, 99, -12, <<>>,
       <<Obj("speed_boost", 2, 40)>>),
     createSegment("gap", 150, 5, 95, -3,
       <<Obj("ring", 1, 50), Obj("ring", 3, 50)>>, <<>>),
     createSegment("straight", 600, 5, 98, -8,
       <<Obj("bumper", 0, 20), Obj("bumper", 4, 30), Obj("barrel", 2, 50),
         Obj("ring", 1, 70), Obj("ring", 3, 70), Obj("barrel", 2, 85)>>,
       <<Obj("speed_boost", 2, 10), Obj("shield", 0, 60),
         Obj("speed_boost", 4, 90)>>),
     createSegment("splitter", 300, 5, 97, -6,
       <<Obj("bumper", 2, 40)>>,
       <<Obj("speed_boost", 0, 50), Obj("speed_boost", 4, 50)>>),
     createSegment("straight", 400, 5, 99, -10,
       <<Obj("barrel", 1, 30), Obj("barrel", 3, 30)>>,
       <<Obj("speed_boost", 2, 50)>>) >>

\* targetLength = settings.matchLength * 80 (matchLength in quarter seconds);
\* NaN for an undefined matchLength, and then currentLength < NaN is false
TargetLengthReached(currentLength, settings) ==
  \/ settings.matchLength = Undefined
  \/ ~(currentLength < settings.matchLength * 20)

\* createTrack for settings under which the generation loop is not entered:
\* the start straight already reaches the target length.  Init draws only
\* such settings for the procedural modes.
createTrack(settings) ==
  << createSegment("straight", 300, 5, 98, -5, <<>>,
       <<Obj("speed_boost", 2, 50)>>),
     createSegment("straight", 200, 5, 99, -8, <<>>, <<>>) >>

RECURSIVE SumLengths(_, _)
SumLengths(track, n) ==
  IF n = 0 THEN 0 ELSE SumLengths(track, n - 1) + track[n].length

\* this.track.reduce((sum, seg) => sum + seg.length, 0), in position units
TotalTrackLength(track) == SumLengths(track, Len(track)) * PosScale

RECURSIVE SegmentIndexFrom(_, _, _, _)
SegmentIndexFrom(track, distance, i, acc) ==
  IF i > Len(track) THEN Len(track)
  ELSE IF distance < (acc + track[i].length) * PosScale THEN i
  ELSE SegmentIndexFrom(track, distance, i + 1, acc + track[i].length)

\* getSegment of GameScene.update: the segment containing a distance, the
\* last one at or beyond the total length
getSegment(track, distance) == track[SegmentIndexFrom(track, distance, 1, 0)]

(***************************************************************************)
(* Player state and physics (engine.ts)                                    *)
(***************************************************************************)
createPlayerState(id, lane, isBot, botProfile) ==
  [id |-> id,
   x |-> (lane * LANE_WIDTH + LANE_WIDTH \div 2) * PosScale,
   lane |-> lane,
   forwardSpeed |-> 0, lateralSpeed |-> 0, distanceTraveled |-> 0,
   isJumping |-> FALSE, jumpTimer |-> DZero, stunTimer |-> DZero,
   hasShield |-> FALSE, shieldTimer |-> DZero,
   speedBoostTimer |-> DZero, jumpBoostTimer |-> DZero,
   isBot |-> isBot, botProfile |-> botProfile,
   score |-> 0, finished |-> FALSE, finishTime |-> DZero,
   finishPosition |-> 0]

\* lower and upper wall of a segment with the given lane count
LaneMin(lanes) == ((SLIDE_WIDTH - lanes * LANE_WIDTH + 20) * PosScale) \div 2
LaneMax(lanes) == ((SLIDE_WIDTH + lanes * LANE_WIDTH - 20) * PosScale) \div 2

\* step 2 of updatePlayerPhysics: the four countdown timers
UpdateTimers(p) ==
  LET sh == TimerDec(p.shieldTimer)
  IN  [p EXCEPT !.stunTimer = TimerDec(p.stunTimer),
                !.shieldTimer = sh,
                !.hasShield = IF DPos(p.shieldTimer) /\ ~DPos(sh)
                              THEN FALSE ELSE p.hasShield,
                !.speedBoostTimer = TimerDec(p.speedBoostTimer),
                !.jumpBoostTimer = TimerDec(p.jumpBoostTimer)]

\* steps 4..9 of updatePlayerPhysics, for a player that is not stunned
MovePlayer(p, input, segment) ==
  LET accel == ((FORWARD_ACCEL - segment.slope * 5) * SpeedScale)
                  \div TicksPerSecond
      f1 == p.forwardSpeed + accel
      f2 == Min(IF DPos(p.speedBoostTimer) THEN (f1 * 3) \div 2 ELSE f1,
                MAX_FORWARD_SPEED * SpeedScale)
      \* the product is rounded to the nearest speed unit
      f3 == (f2 * segment.friction + 50) \div 100
      targetLateral == (IF input.left THEN -1 ELSE 0)
                       + (IF input.right THEN 1 ELSE 0)
      lAcc == (LATERAL_ACCEL * SpeedScale) \div TicksPerSecond
      lFric == (LATERAL_FRICTION * SpeedScale) \div TicksPerSecond
      lMax == LATERAL_SPEED * SpeedScale
      ls == IF targetLateral # 0
            THEN Max(-lMax, Min(lMax, p.lateralSpeed + targetLateral * lAcc))
            ELSE IF p.lateralSpeed > 0 THEN Max(0, p.lateralSpeed - lFric)
            ELSE IF p.lateralSpeed < 0 THEN Min(0, p.lateralSpeed + lFric)
            ELSE 0
      starts == input.jump /\ ~p.isJumping
      jt0 == IF starts
             THEN (IF DPos(p.jumpBoostTimer) THEN JUMP_DURATION_BOOSTED
                   ELSE JUMP_DURATION)
             ELSE p.jumpTimer
      inAir == p.isJumping \/ starts
      jt1 == IF inAir THEN TimerDec(jt0) ELSE jt0
      lands == inAir /\ ~DPos(jt1)
      f4 == IF lands THEN f3 + LANDING_BOOST * SpeedScale ELSE f3
      x1 == Max(LaneMin(segment.lanes),
                Min(LaneMax(segment.lanes), p.x + ls))
      ln == Max(0, Min(segment.lanes - 1, x1 \div (LANE_WIDTH * PosScale)))
  IN  [p EXCEPT !.forwardSpeed = f4,
                !.lateralSpeed = ls,
                !.isJumping = inAir /\ ~lands,
                !.jumpTimer = jt1,
                !.x = x1,
                !.distanceTraveled = p.distanceTraveled + f4,
                !.lane = ln]

\* physics that moves a stunned player
AfterTimersMoving(q, input, segment) == MovePlayer(q, input, segment)

\* updatePlayerPhysics after its timers: no movement while stunned
AfterTimers(q, input, segment) ==
  IF DPos(q.stunTimer) THEN q ELSE MovePlayer(q, input, segment)

\* physics that does not skip a finished player
updatePlayerPhysicsAlways(player, input, segment) ==
  AfterTimers(UpdateTimers(player), input, segment)

\* updatePlayerPhysics(player, input, segment, FIXED_DT)
updatePlayerPhysics(player, input, segment) ==
  IF player.finished THEN player
  ELSE AfterTimers(UpdateTimers(player), input, segment)

\* Math.sqrt(dx*dx + dy*dy) < COLLISION_RADIUS * 2; the squares are taken
\* only when both differences are below the radius, which keeps them in range
\* a collision test that does not look at the jumping and finished flags
checkPlayerCollisionByDistance(a, b) ==
  /\ Abs(a.x - b.x) < COLLISION_RADIUS * 2 * PosScale
  /\ Abs(a.distanceTraveled - b.distanceTraveled)
       < COLLISION_RADIUS * 2 * PosScale
  /\ (a.x - b.x) * (a.x - b.x)
       + (a.distanceTraveled - b.distanceTraveled)
         * (a.distanceTraveled - b.distanceTraveled)
       < (COLLISION_RADIUS * 2 * PosScale) * (COLLISION_RADIUS * 2 * PosScale)

checkPlayerCollision(a, b) ==
  LET dx == Abs(a.x - b.x)
      dy == Abs(a.distanceTraveled - b.distanceTraveled)
      r == COLLISION_RADIUS * 2 * PosScale
  IN  /\ ~(a.isJumping \/ b.isJumping)
      /\ ~(a.finished \/ b.finished)
      /\ dx < r /\ dy < r
      /\ dx * dx + dy * dy < r * r

\* a collision that pushes and stuns both players, shielded or not
resolveCollisionUnshielded(a, b) ==
  << [a EXCEPT !.lateralSpeed = @ + (IF a.x - b.x > 0 THEN 1 ELSE -1)
                                    * COLLISION_PUSH * SpeedScale,
               !.stunTimer = STUN_DURATION],
     [b EXCEPT !.lateralSpeed = @ - (IF a.x - b.x > 0 THEN 1 ELSE -1)
                                    * COLLISION_PUSH * SpeedScale,
               !.stunTimer = STUN_DURATION] >>

\* resolveCollision(a, b): the pair after the call
resolveCollision(a, b) ==
  IF a.hasShield /\ b.hasShield THEN <<a, b>>
  ELSE LET pushDir == IF a.x - b.x > 0 THEN 1 ELSE -1
           push == pushDir * COLLISION_PUSH * SpeedScale
       IN  << IF ~a.hasShield
              THEN [a EXCEPT !.lateralSpeed = @ + push,
                             !.stunTimer = STUN_DURATION]
              ELSE a,
              IF ~b.hasShield
              THEN [b EXCEPT !.lateralSpeed = @ - push,
                             !.stunTimer = STUN_DURATION]
              ELSE b >>

\* an obstacle effect whose barrel slows as the ring does
applyObstacleEffectSlow(player, type) ==
  IF player.hasShield THEN player
  ELSE IF type = "barrel"
  THEN [player EXCEPT !.forwardSpeed = (@ * 7) \div 10,
                      !.stunTimer = BARREL_STUN]
  ELSE player

applyObstacleEffect(player, type) ==
  IF player.hasShield THEN player
  ELSE IF type = "barrel"
  THEN [player EXCEPT !.forwardSpeed = @ \div 2, !.stunTimer = BARREL_STUN]
  ELSE IF type = "ring"
  THEN [player EXCEPT !.forwardSpeed = (@ * 7) \div 10,
                      !.lateralSpeed = TDiv(-@, 2)]
  ELSE IF type = "bumper"
  THEN [player EXCEPT
          !.lateralSpeed = @ + (IF 2 * player.x > SLIDE_WIDTH * PosScale
                                THEN 1 ELSE -1)
                               * ((COLLISION_PUSH * 3 * SpeedScale) \div 2),
          !.stunTimer = STUN_DURATION]
  ELSE player

applyPowerup(player, type) ==
  IF type = "speed_boost"
  THEN [player EXCEPT !.speedBoostTimer = SPEED_BOOST_DURATION]
  ELSE IF type = "shield"
  THEN [player EXCEPT !.hasShield = TRUE, !.shieldTimer = SHIELD_DURATION]
  ELSE IF type = "jump_boost"
  THEN [player EXCEPT !.jumpBoostTimer = JUMP_BOOST_DURATION]
  ELSE player

\* a score of the time bonus alone
calculateScoreOfTime(position, totalPlayers, finishTime, matchLength) ==
  IF matchLength = Undefined THEN NaN
  ELSE IF DLe(DQuarters(matchLength), finishTime) THEN 0
  ELSE DFloor(DMul(DSub(DQuarters(matchLength), finishTime), 10))

\* a score whose time bonus grows with the finish time
calculateScoreLate(position, totalPlayers, finishTime, matchLength) ==
  IF matchLength = Undefined THEN NaN
  ELSE Max(0, (totalPlayers - position + 1) * 100)
         + DFloor(DMul(finishTime, 10))

\* calculateScore(position, totalPlayers, finishTime, matchLength):
\* Math.floor((matchLength - finishTime) * 10) in double arithmetic
calculateScore(position, totalPlayers, finishTime, matchLength) ==
  LET positionScore == Max(0, (totalPlayers - position + 1) * 100)
      ml == DQuarters(matchLength)
      timeBonus == IF DLe(ml, finishTime) THEN 0
                   ELSE DFloor(DMul(DSub(ml, finishTime), 10))
  IN  IF matchLength = Undefined THEN NaN ELSE positionScore + timeBonus

(***************************************************************************)
(* SeededRNG (engine.ts): the 32-bit state as <<high half, low half>>      *)
(***************************************************************************)
Half == 65536

\* a seed below 2^16 * 2^16 as the state of a new SeededRNG
RngOfSeed(seed) == <<seed \div Half, seed % Half>>

\* new SeededRNG(undefined): the first next() stores NaN & 0xFFFFFFFF = 0 and
\* returns 0, as it does from the seed 634785765 = 9686 * 2^16 + 4069
RngOfUndefined == <<9686, 4069>>

\* this.seed = (this.seed * 1664525 + 1013904223) & 0xFFFFFFFF, with
\* 1664525 = 25 * 2^16 + 26125 and 1013904223 = 15470 * 2^16 + 62303
RngStep(s) ==
  LET t == s[2] * 26125 + 62303
  IN  <<(s[1] * 26125 + s[2] * 25 + 15470 + (t \div Half)) % Half, t % Half>>

\* s * d as three base-2^16 digits, most significant first
RngTimes(s, d) ==
  LET a0 == s[2] * d
      a1 == s[1] * d + (a0 \div Half)
  IN  <<a1 \div Half, a1 % Half, a0 % Half>>

\* n * 0xFFFFFFFF as three base-2^16 digits, for 1 <= n <= 2^16
MaxTimes(n) == <<n - 1, Half - 1, Half - n>>

Lex3Lt(a, b) ==
  \/ a[1] < b[1]
  \/ a[1] = b[1] /\ a[2] < b[2]
  \/ a[1] = b[1] /\ a[2] = b[2] /\ a[3] < b[3]

\* (s >>> 0) / 0xFFFFFFFF < n / d
RngLt(s, n, d) == Lex3Lt(RngTimes(s, d), MaxTimes(n))
\* (s >>> 0) / 0xFFFFFFFF > n / d
RngGt(s, n, d) == Lex3Lt(MaxTimes(n), RngTimes(s, d))

\* Math.floor(next() * n) for the state s after the step, 1 <= n < 2^15:
\* s * n = A * 2^32 + B, and floor(s * n / 0xFFFFFFFF) is A, plus 1 when
\* A + B >= 0xFFFFFFFF
FloorTimes(s, n) ==
  LET p == RngTimes(s, n)
  IN  p[1] + (IF p[2] = Half - 1 /\ p[3] + p[1] + 1 >= Half THEN 1 ELSE 0)

\* nextInt(min, max) on the state s after the step of next()
nextInt(s, min, max) == FloorTimes(s, max - min) + min

(***************************************************************************)
(* Bot profiles (botProfiles.ts, in src/src/game/audio.ts); the factors    *)
(* are held in hundredths                                                  *)
(***************************************************************************)
Profile(tsf, bsr, olw, cag, cav, jf, jtp, rt, oar, sj, rd, mc, ad) ==
  [targetSpeedFactor |-> tsf, boostSeekRange |-> bsr,
   optimalLineWeight |-> olw, collisionAggression |-> cag,
   collisionAvoidance |-> cav, jumpFrequency |-> jf,
   jumpTimingPrecision |-> jtp, riskTolerance |-> rt,
   obstacleAvoidRange |-> oar, steeringJitter |-> sj,
   reactionDelay |-> rd, mistakeChance |-> mc, adaptiveness |-> ad]

ProfileTypes == <<"casual", "aggressive", "speedster", "trickster", "adaptive">>

BOT_PROFILES_INITIAL ==
  [t \in {"casual", "aggressive", "speedster", "trickster", "adaptive"} |->
     IF t = "casual"
     THEN Profile(70, 100, 30, 10, 70, 20, 30, 20, 120, 15, 8, 10, 10)
     ELSE IF t = "aggressive"
     THEN Profile(85, 150, 40, 80, 20, 40, 50, 80, 80, 10, 4, 8, 30)
     ELSE IF t = "speedster"
     THEN Profile(95, 200, 80, 20, 50, 30, 80, 50, 150, 5, 2, 4, 20)
     ELSE IF t = "trickster"
     THEN Profile(75, 120, 30, 30, 30, 80, 70, 70, 100, 12, 5, 6, 20)
     ELSE Profile(80, 160, 60, 40, 40, 40, 60, 50, 130, 8, 3, 5, 90)]

(***************************************************************************)
(* BotController (botController.ts).  this.profile is a reference to the   *)
(* entry of BOT_PROFILES, so a controller holds the profile's name and the *)
(* profile itself lives in the table passed as profiles.                   *)
(***************************************************************************)
NeutralBuffer(n) == [i \in 1..n |-> NoInput]

\* new BotController(profileType, rng)
NewBotController(profileType, profiles) ==
  [profileType |-> profileType, state |-> "race", stateTimer |-> 0,
   reactionBuffer |-> NeutralBuffer(profiles[profileType].reactionDelay),
   targetLane |-> 2, frameCount |-> 0]

\* getProfile(): a copy of the profile the controller refers to
getProfile(ctrl, profiles) == profiles[ctrl.profileType]

\* the other non-finished players within the proximity window of the bot
NearbyPlayers(bot, allPlayers) ==
  {i \in 1..Len(allPlayers) :
     /\ allPlayers[i].id # bot.id
     /\ ~allPlayers[i].finished
     /\ Abs(allPlayers[i].distanceTraveled - bot.distanceTraveled)
          < 100 * PosScale
     /\ Abs(allPlayers[i].x - bot.x) < SLIDE_WIDTH * PosScale}

\* the adjustment made to a field that update reads
AdaptProfileJitter(prof, bot, allPlayers) ==
  IF /\ prof.adaptiveness > 50
     /\ \E i \in 1..Len(allPlayers) :
          /\ ~allPlayers[i].isBot
          /\ allPlayers[i].distanceTraveled
               > bot.distanceTraveled + 100 * PosScale
  THEN [prof EXCEPT !.steeringJitter = Min(100, @ + 10)]
  ELSE prof

\* an adjustment without the clamp at 1
AdaptProfileUnclamped(prof, bot, allPlayers) ==
  IF /\ prof.adaptiveness > 50
     /\ \E i \in 1..Len(allPlayers) :
          /\ ~allPlayers[i].isBot
          /\ allPlayers[i].distanceTraveled
               > bot.distanceTraveled + 100 * PosScale
  THEN [prof EXCEPT !.targetSpeedFactor = @ + 10, !.riskTolerance = @ + 10]
  ELSE prof

\* the adaptive adjustment of updateState, on the shared profile
AdaptProfile(prof, bot, allPlayers) ==
  LET humans == {i \in 1..Len(allPlayers) : ~allPlayers[i].isBot}
      h == CHOOSE i \in humans : \A j \in humans : i <= j
  IN  IF /\ prof.adaptiveness > 50
         /\ humans # {}
         /\ allPlayers[h].distanceTraveled
              > bot.distanceTraveled + 100 * PosScale
      THEN [prof EXCEPT !.targetSpeedFactor = Min(100, @ + 10),
                        !.riskTolerance = Min(100, @ + 10)]
      ELSE prof

\* updateState: the controller, the generator and the profile table after it
updateState(ctrl, bot, allPlayers, rng, profiles) ==
  IF DPos(bot.stunTimer)
  THEN [ctrl |-> [ctrl EXCEPT !.state = "recover", !.stateTimer = 0],
        rng |-> rng, profiles |-> profiles]
  ELSE
    LET nearby == NearbyPlayers(bot, allPlayers)
        prof == AdaptProfile(profiles[ctrl.profileType], bot, allPlayers)
        \* recover -> race
        c1 == IF ctrl.state = "recover"
              THEN [ctrl EXCEPT !.state = "race", !.stateTimer = 0]
              ELSE ctrl
        \* chase
        draws1 == nearby # {}
        r1 == IF draws1 THEN RngStep(rng) ELSE rng
        c2 == IF draws1 /\ RngLt(r1, prof.collisionAggression, 100)
              THEN [c1 EXCEPT !.state = "chase", !.stateTimer = 0]
              ELSE IF c1.state = "chase"
                      /\ (nearby = {} \/ c1.stateTimer > 120)
              THEN [c1 EXCEPT !.state = "race", !.stateTimer = 0]
              ELSE c1
        \* usePowerup
        draws2 == DPos(bot.speedBoostTimer) \/ bot.hasShield
                  \/ DPos(bot.jumpBoostTimer)
        r2 == IF draws2 THEN RngStep(r1) ELSE r1
        c3 == IF draws2 /\ RngLt(r2, 1, 10)
              THEN [c2 EXCEPT !.state = "usePowerup", !.stateTimer = 0]
              ELSE c2
        \* safety valve
        c4 == IF c3.stateTimer > 180
              THEN [c3 EXCEPT !.state = "race", !.stateTimer = 0]
              ELSE c3
    IN  [ctrl |-> c4, rng |-> r2,
         profiles |-> [profiles EXCEPT ![ctrl.profileType] = prof]]

CountLane(objs, lane) == Cardinality({k \in 1..Len(objs) : objs[k].lane = lane})

\* the score of a lane without its random part, in quarter points
LaneBase(prof, segment, i) ==
  LET centerDist == Abs(i - segment.lanes \div 2)
  IN  ( (segment.lanes - centerDist) * prof.optimalLineWeight * 40
        - CountLane(segment.obstacles, i) * prof.collisionAvoidance * 80
        + CountLane(segment.powerups, i) * prof.boostSeekRange * 30 ) \div 100

\* base1/4 + (10 * s1 / 0xFFFFFFFF - 5) > base2/4 + (10 * s2 / 0xFFFFFFFF - 5)
ScoreGt(base1, s1, base2, s2) ==
  LET a == 40 * (s1[1] - s2[1]) + (base1 - base2) * Half
      c == 40 * (s1[2] - s2[2]) - (base1 - base2)
  IN  IF a >= 41 THEN TRUE ELSE IF a <= -41 THEN FALSE ELSE a * Half + c > 0

RECURSIVE RngDraws(_, _)
\* the generator states after 1..n draws
RngDraws(rng, n) ==
  IF n = 0 THEN <<>>
  ELSE <<RngStep(rng)>> \o RngDraws(RngStep(rng), n - 1)

\* the first lane of the highest score, for the draws made for the lanes
BestLane(prof, segment, draws) ==
  LET n == segment.lanes
      Better(i, j) == ScoreGt(LaneBase(prof, segment, i - 1), draws[i],
                              LaneBase(prof, segment, j - 1), draws[j])
      best == CHOOSE i \in 1..n :
                /\ \A j \in 1..n : ~Better(j, i)
                /\ \A j \in 1..(i - 1) : Better(i, j)
  IN  [lane |-> best - 1, rng |-> draws[n]]

\* scoreLanes: the best lane and the generator after one draw per lane
scoreLanes(prof, segment, rng) ==
  BestLane(prof, segment, RngDraws(rng, segment.lanes))

\* the jump decision of raceInput; r1 is the generator after its first
\* draw: on a ramp the draw for the timing, and a second draw follows if it
\* fails; elsewhere the draw for the jump frequency, the only one
RaceJump(prof, segment, r1) ==
  IF segment.type = "ramp"
  THEN IF RngLt(r1, prof.jumpTimingPrecision, 100)
       THEN [jump |-> TRUE, rng |-> r1]
       ELSE [jump |-> RngLt(RngStep(r1), prof.jumpFrequency, 12000),
             rng |-> RngStep(r1)]
  ELSE [jump |-> RngLt(r1, prof.jumpFrequency, 12000), rng |-> r1]

\* raceInput for the lane chosen (sl) and the jump decided (rj)
RaceSteer(bot, sl, rj) ==
  LET diff == (sl.lane * LANE_WIDTH + LANE_WIDTH \div 2) * PosScale - bot.x
      threshold == 10 * PosScale
  IN  [input |-> [left |-> diff < -threshold,
                  right |-> ~(diff < -threshold) /\ diff > threshold,
                  jump |-> rj.jump],
       rng |-> rj.rng, targetLane |-> sl.lane]

RaceWithLane(prof, bot, segment, sl) ==
  RaceSteer(bot, sl, RaceJump(prof, segment, RngStep(sl.rng)))

raceInput(ctrl, prof, bot, segment, rng) ==
  RaceWithLane(prof, bot, segment, scoreLanes(prof, segment, rng))

\* findSafestLane: the first lane of least danger
findSafestLane(segment) ==
  LET Danger(i) == 10 * CountLane(segment.obstacles, i)
  IN  CHOOSE i \in 0..(segment.lanes - 1) :
        /\ \A j \in 0..(segment.lanes - 1) : Danger(i) <= Danger(j)
        /\ \A j \in 0..(i - 1) : Danger(j) > Danger(i)

avoidObstacleInput(prof, bot, segment, rng) ==
  LET targetX == (findSafestLane(segment) * LANE_WIDTH + LANE_WIDTH \div 2)
                   * PosScale
      diff == targetX - bot.x
      r1 == RngStep(rng)
  IN  [input |-> [left |-> diff < -5 * PosScale,
                  right |-> ~(diff < -5 * PosScale) /\ diff > 5 * PosScale,
                  jump |-> RngLt(r1, prof.riskTolerance, 200)],
       rng |-> r1]

chaseInput(prof, bot, allPlayers, rng) ==
  LET targets == {i \in 1..Len(allPlayers) :
                    allPlayers[i].id # bot.id /\ ~allPlayers[i].finished}
      Dist(i) == Abs(allPlayers[i].distanceTraveled - bot.distanceTraveled)
                 + Abs(allPlayers[i].x - bot.x)
      \* the sort is stable: the first of the nearest players
      t == CHOOSE i \in targets :
             \A j \in targets : Dist(i) < Dist(j) \/ (Dist(i) = Dist(j) /\ i <= j)
      dx == allPlayers[t].x - bot.x
      toward == prof.collisionAggression > 50
      lt == targets # {} /\ dx < -5 * PosScale
      gt == targets # {} /\ ~lt /\ dx > 5 * PosScale
      r1 == RngStep(rng)
  IN  [input |-> [left |-> IF toward THEN lt ELSE gt,
                  right |-> IF toward THEN gt ELSE lt,
                  jump |-> RngLt(r1, 2, 100)],
       rng |-> r1]

powerupInput(bot, rng) ==
  LET draws == DPos(bot.jumpBoostTimer)
      r1 == IF draws THEN RngStep(rng) ELSE rng
      centerX == (SLIDE_WIDTH * PosScale) \div 2
      boosted == DPos(bot.speedBoostTimer)
      goRight == boosted /\ bot.x < centerX - 10 * PosScale
      goLeft == boosted /\ ~goRight /\ bot.x > centerX + 10 * PosScale
  IN  [input |-> [left |-> goLeft, right |-> goRight,
                  jump |-> draws /\ RngLt(r1, 5, 100)],
       rng |-> r1]

\* generateInput: the raw input, the generator and the target lane
generateInput(ctrl, prof, bot, allPlayers, segment, rng) ==
  IF ctrl.state = "race"
  THEN raceInput(ctrl, prof, bot, segment, rng)
  ELSE LET r == IF ctrl.state = "avoidObstacle"
                THEN avoidObstacleInput(prof, bot, segment, rng)
                ELSE IF ctrl.state = "chase"
                THEN chaseInput(prof, bot, allPlayers, rng)
                ELSE IF ctrl.state = "usePowerup"
                THEN powerupInput(bot, rng)
                ELSE [input |-> NoInput, rng |-> rng]
       IN  [input |-> r.input, rng |-> r.rng, targetLane |-> ctrl.targetLane]

\* the steering jitter on the delayed input; r1 is the generator after the
\* draw that decides it
JitterInput(delayed, r1, prof) ==
  IF ~RngLt(r1, prof.steeringJitter, 100)
  THEN [input |-> delayed, rng |-> r1]
  ELSE [input |-> IF RngGt(RngStep(r1), 1, 2)
                  THEN [delayed EXCEPT !.left = ~@]
                  ELSE [delayed EXCEPT !.right = ~@],
        rng |-> RngStep(r1)]

\* the random mistake on the jittered input j; r3 is the generator after
\* the draw that decides it
MistakeInput(j, r3, prof) ==
  IF ~RngLt(r3, prof.mistakeChance, 6000)
  THEN [input |-> j.input, rng |-> r3]
  ELSE [input |-> [j.input EXCEPT !.left = RngGt(RngStep(r3), 1, 2),
                                  !.right = ~RngGt(RngStep(r3), 1, 2)],
        rng |-> RngStep(r3)]

MistakeAfter(j, prof) == MistakeInput(j, RngStep(j.rng), prof)

\* update after updateState (us) and generateInput (gi): the raw input
\* enters the reaction buffer, the oldest input leaves it
BotAct(us, gi, prof) ==
  LET buf == Append(us.ctrl.reactionBuffer, gi.input)
  IN  [ctrl |-> [us.ctrl EXCEPT !.reactionBuffer = Tail(buf),
                                !.targetLane = gi.targetLane],
       profiles |-> us.profiles,
       out |-> MistakeAfter(JitterInput(Head(buf), RngStep(gi.rng), prof),
                            prof)]

BotDecide(us, prof, bot, allPlayers, segment) ==
  BotAct(us, generateInput(us.ctrl, prof, bot, allPlayers, segment, us.rng),
         prof)

BotAfterState(us, profileType, bot, allPlayers, segment) ==
  BotDecide(us, us.profiles[profileType], bot, allPlayers, segment)

\* an update that leaves race for avoidObstacle on a segment with obstacles
BotUpdateAvoiding(ctrl, bot, allPlayers, segment, rng, profiles) ==
  LET us == updateState([ctrl EXCEPT !.frameCount = @ + 1,
                                     !.stateTimer = @ + 1],
                        bot, allPlayers, rng, profiles)
  IN  BotAfterState(
        IF us.ctrl.state = "race" /\ segment.obstacles # <<>>
        THEN [us EXCEPT !.ctrl.state = "avoidObstacle"] ELSE us,
        ctrl.profileType, bot, allPlayers, segment)

\* an update whose updateState does not look at the stun of the bot
BotUpdateUnstunned(ctrl, bot, allPlayers, segment, rng, profiles) ==
  BotAfterState(
    updateState([ctrl EXCEPT !.frameCount = @ + 1, !.stateTimer = @ + 1],
                [bot EXCEPT !.stunTimer = DZero], allPlayers, rng, profiles),
    ctrl.profileType, bot, allPlayers, segment)

\* BotController.update: the controller, the profile table, and (out) the
\* returned input with the generator
BotUpdate(ctrl, bot, allPlayers, segment, rng, profiles) ==
  BotAfterState(
    updateState([ctrl EXCEPT !.frameCount = @ + 1, !.stateTimer = @ + 1],
                bot, allPlayers, rng, profiles),
    ctrl.profileType, bot, allPlayers, segment)

(***************************************************************************)
(* World objects (GameScene.ts)                                            *)
(***************************************************************************)
\* the world objects of one segment: its obstacles, then its powerups
SegmentObjects(seg, segStart) ==
  LET At(o) == ((segStart * 100 + o.position * seg.length) * PosScale) \div 100
  IN  [k \in 1..Len(seg.obstacles) |->
         [distance |-> At(seg.obstacles[k]), lane |-> seg.obstacles[k].lane,
          lanes |-> seg.lanes, type |-> "obstacle",
          kind |-> seg.obstacles[k].type, collected |-> FALSE]]
      \o
      [k \in 1..Len(seg.powerups) |->
         [distance |-> At(seg.powerups[k]), lane |-> seg.powerups[k].lane,
          lanes |-> seg.lanes, type |-> "powerup",
          kind |-> seg.powerups[k].type, collected |-> FALSE]]

RECURSIVE WorldObjectsFrom(_, _, _)
WorldObjectsFrom(trk, i, segStart) ==
  IF i > Len(trk) THEN <<>>
  ELSE SegmentObjects(trk[i], segStart)
       \o WorldObjectsFrom(trk, i + 1, segStart + trk[i].length)

buildWorldObjects(trk) == WorldObjectsFrom(trk, 1, 0)

\* the test of checkWorldObjectCollisions for one player and one object:
\* |playerNorm - laneOffset| <= 0.35 with laneOffset =
\* (lane / (lanes - 1) * 2 - 1) * 0.8, cleared of its denominators
HitsObject(p, obj, lanes0) ==
  LET hw == (lanes0 * LANE_WIDTH * PosScale) \div 2
      cx == (SLIDE_WIDTH * PosScale) \div 2
      den == obj.lanes - 1
  IN  /\ ~p.finished /\ ~p.isJumping
      /\ ~(Abs(p.distanceTraveled - obj.distance) > 30 * PosScale)
      /\ ~(Abs(20 * den * (p.x - cx) - 16 * (2 * obj.lane - den) * hw)
             > 7 * den * hw)

\* the effect of one object on one player that hits it
ObjectEffect(p, obj) ==
  IF obj.type = "obstacle"
  THEN (IF ~p.hasShield THEN applyObstacleEffect(p, obj.kind) ELSE p)
  ELSE applyPowerup(p, obj.kind)

RECURSIVE ObjectsFromAgain(_, _, _, _)
\* a loop over the world objects that does not skip the collected ones
ObjectsFromAgain(ps, objs, k, lanes0) ==
  IF k > Len(objs) THEN [players |-> ps, worldObjects |-> objs]
  ELSE LET hit == {i \in 1..Len(ps) : HitsObject(ps[i], objs[k], lanes0)}
       IN  ObjectsFromAgain(
             [i \in 1..Len(ps) |->
                IF i \in hit THEN ObjectEffect(ps[i], objs[k]) ELSE ps[i]],
             [objs EXCEPT ![k].collected = (@ \/ hit # {})],
             k + 1, lanes0)

RECURSIVE ObjectsFrom(_, _, _, _)
\* the loop over the world objects, from object k on
ObjectsFrom(ps, objs, k, lanes0) ==
  IF k > Len(objs) THEN [players |-> ps, worldObjects |-> objs]
  ELSE IF objs[k].collected THEN ObjectsFrom(ps, objs, k + 1, lanes0)
  ELSE LET hit == {i \in 1..Len(ps) : HitsObject(ps[i], objs[k], lanes0)}
       IN  ObjectsFrom(
             [i \in 1..Len(ps) |->
                IF i \in hit THEN ObjectEffect(ps[i], objs[k]) ELSE ps[i]],
             [objs EXCEPT ![k].collected = (hit # {})],
             k + 1, lanes0)

\* checkWorldObjectCollisions: the lane count is that of the first segment
checkWorldObjectCollisions(ps, objs, trk) ==
  ObjectsFrom(ps, objs, 1, trk[1].lanes)

(***************************************************************************)
(* The Driver (GameScene.ts)                                               *)
(***************************************************************************)
BotId(i) == IF i = 0 THEN "bot_0" ELSE IF i = 1 THEN "bot_1"
            ELSE IF i = 2 THEN "bot_2" ELSE IF i = 3 THEN "bot_3"
            ELSE "bot_n"

\* for (let i = 0; i < botCount; i++): no iteration for an undefined count
BotsOf(settings) ==
  IF settings.botCount = Undefined THEN 0 ELSE settings.botCount

\* createPlayers: the human, then the bots
createPlayers(settings, trk) ==
  LET totalLanes == trk[1].lanes
  IN  [i \in 1..(1 + BotsOf(settings)) |->
         IF i = 1
         THEN createPlayerState("player", totalLanes \div 2, FALSE, "none")
         ELSE createPlayerState(BotId(i - 2), (i - 2) % totalLanes, TRUE,
                                ProfileTypes[((i - 2) % 5) + 1])]

\* the controllers, by roster position of their bot
createControllers(settings, profiles) ==
  [i \in 2..(1 + BotsOf(settings)) |->
     NewBotController(ProfileTypes[((i - 2) % 5) + 1], profiles)]

\* one bot of the bot loop: u is what its controller returned
BotStep(st, i, seg, u) ==
  [players |-> [st.players EXCEPT
                  ![i] = updatePlayerPhysics(st.players[i], u.out.input, seg)],
   ctrls |-> [st.ctrls EXCEPT ![i] = u.ctrl],
   rng |-> u.out.rng, profiles |-> u.profiles]

BotTurn(st, i, seg) ==
  BotStep(st, i, seg,
          BotUpdate(st.ctrls[i], st.players[i], st.players, seg, st.rng,
                    st.profiles))

RECURSIVE BotsFrom(_, _, _)
\* the bot loop of update: each unfinished bot decides and then moves
BotsFrom(i, st, trk) ==
  IF i > Len(st.players) THEN st
  ELSE IF ~st.players[i].isBot \/ st.players[i].finished
  THEN BotsFrom(i + 1, st, trk)
  ELSE BotsFrom(i + 1,
                BotTurn(st, i,
                        getSegment(trk, st.players[i].distanceTraveled)),
                trk)

RECURSIVE BotsBefore(_, _, _, _)
\* the bot loop of update up to the turn of the bot at index last
BotsBefore(i, last, st, trk) ==
  IF i >= last THEN st
  ELSE IF ~st.players[i].isBot \/ st.players[i].finished
  THEN BotsBefore(i + 1, last, st, trk)
  ELSE BotsBefore(i + 1, last,
                  BotTurn(st, i,
                          getSegment(trk, st.players[i].distanceTraveled)),
                  trk)

\* the roster pairs i < j in the order of the two nested loops
RosterPairs(n) ==
  LET Row(i) == [k \in 1..(n - i) |-> <<i, i + k>>]
      RECURSIVE Rows(_)
      Rows(i) == IF i >= n THEN <<>> ELSE Row(i) \o Rows(i + 1)
  IN  Rows(1)

RECURSIVE CollisionLoop(_, _, _)
\* the collision loop over a sequence of pairs, from pair k on
CollisionLoop(ps, pairs, k) ==
  IF k > Len(pairs) THEN ps
  ELSE LET i == pairs[k][1]
           j == pairs[k][2]
           r == resolveCollision(ps[i], ps[j])
       IN  IF checkPlayerCollision(ps[i], ps[j])
           THEN CollisionLoop([ps EXCEPT ![i] = r[1], ![j] = r[2]],
                              pairs, k + 1)
           ELSE CollisionLoop(ps, pairs, k + 1)

\* a finish that always takes the first place
MarkFinishedFirst(p, count, total, elapsed, settings) ==
  [p EXCEPT !.finished = TRUE, !.finishTime = elapsed, !.finishPosition = 1,
            !.score = calculateScore(1, total, elapsed, settings.matchLength)]

\* one player's finish: position, time and score are taken at the moment
MarkFinished(p, count, total, elapsed, settings) ==
  [p EXCEPT !.finished = TRUE, !.finishTime = elapsed,
            !.finishPosition = count,
            !.score = calculateScore(count, total, elapsed,
                                     settings.matchLength)]

RECURSIVE FinishFrom(_, _, _, _, _, _, _)
\* the finish checks (force = FALSE: players at or beyond the goal) and the
\* force-finish at the end of the race (force = TRUE: every player left)
FinishFrom(ps, count, i, elapsed, settings, goal, force) ==
  IF i > Len(ps) THEN [players |-> ps, finishCount |-> count]
  ELSE IF ~ps[i].finished /\ (force \/ ps[i].distanceTraveled >= goal)
  THEN FinishFrom([ps EXCEPT ![i] = MarkFinished(ps[i], count + 1, Len(ps),
                                                 elapsed, settings)],
                  count + 1, i + 1, elapsed, settings, goal, force)
  ELSE FinishFrom(ps, count, i + 1, elapsed, settings, goal, force)

\* a race without a time limit
TimeLimitNever(elapsed, settings) == FALSE

\* this.elapsedTime >= this.settings.matchLength; false for an undefined one
TimeLimitReached(elapsed, settings) ==
  /\ settings.matchLength # Undefined
  /\ DLe(DQuarters(settings.matchLength), elapsed)

AllFinished(ps) == \A i \in 1..Len(ps) : ps[i].finished

(***************************************************************************)
(* Replay codec (replayCodec.ts, in src/unnamed/part_001) and storage      *)
(* (storage.ts, in src/src/ai/botController.ts)                            *)
(***************************************************************************)
\* a bit that is never set
BitClear(b) == 0

Bit(b) == IF b THEN 1 ELSE 0

\* the values of JSON.parse, and undefined; an object is given by the
\* properties the codec reads.  Null is also the result of a decoding that
\* failed.
JUndefined == [type |-> "undefined"]
Null == [type |-> "null"]
JNumber(n) == [type |-> "number", n |-> n]
JString(str) == [type |-> "string", str |-> str]
JArray(items) == [type |-> "array", items |-> items]
JCompact(v, s, m, f) == [type |-> "object", v |-> v, s |-> s, m |-> m, f |-> f]
JFrame(t, i) == [type |-> "object", t |-> t, i |-> i]

\* an exception instead of a value
Thrown == [type |-> "thrown", kind |-> "thrown"]

\* texts: the empty string, text that is not base64, text that is not JSON,
\* the JSON text of a value, and the base64 text of a text
EmptyText == [kind |-> "empty"]
PlainText == [kind |-> "plain"]
JSONstringify(value) == [kind |-> "json", value |-> value]
btoa(text) == [kind |-> "base64", of |-> text]

\* atob: the text a base64 text stands for ('' for ''); throws otherwise
atob(encoded) ==
  IF encoded.kind = "base64" THEN encoded.of
  ELSE IF encoded.kind = "empty" THEN EmptyText
  ELSE Thrown

\* JSON.parse: throws for a text that is not JSON
JSONparse(text) == IF text.kind = "json" THEN text.value ELSE Thrown

\* value.name: undefined for a missing property and for a primitive; the
\* access throws for null
Prop(value, name) ==
  IF value.type = "null" THEN Thrown
  ELSE IF value.type = "object" /\ name \in DOMAIN value THEN value[name]
  ELSE JUndefined

\* a number property as the model keeps it
NumberOf(value) == IF value.type = "number" THEN value.n ELSE Undefined

\* the mode of a replay without one
NoMode == "undefined"

StringOf(value) == IF value.type = "string" THEN value.str ELSE NoMode

\* the operand of & as a 32-bit integer: 0 for undefined
ToInt32(value) == IF value.type = "number" THEN value.n ELSE 0

\* encodeReplayToUrl: btoa(JSON.stringify(compact))
encodeReplayToUrl(replay) ==
  btoa(JSONstringify(
    JCompact(JNumber(replay.version), JNumber(replay.seed),
             JString(replay.mode),
             JArray([k \in 1..Len(replay.frames) |->
                       JFrame(JNumber(replay.frames[k].tick),
                              JNumber(Bit(replay.frames[k].inputs.left)
                                      + 2 * Bit(replay.frames[k].inputs.right)
                                      + 4 * Bit(replay.frames[k].inputs.jump)))]))))

\* settings: {} -- an object none of whose fields is defined
EmptySettings == [botCount |-> Undefined, matchLength |-> Undefined]

\* the ReplayData built from the parsed object
DecodedReplay(compact) ==
  [version |-> NumberOf(Prop(compact, "v")),
   seed |-> NumberOf(Prop(compact, "s")),
   mode |-> StringOf(Prop(compact, "m")),
   settings |-> EmptySettings,
   frames |-> [k \in 1..Len(compact.f.items) |->
                 [tick |-> NumberOf(Prop(compact.f.items[k], "t")),
                  inputs |->
                    [left |-> ToInt32(Prop(compact.f.items[k], "i")) % 2 = 1,
                     right |-> (ToInt32(Prop(compact.f.items[k], "i")) \div 2)
                                 % 2 = 1,
                     jump |-> (ToInt32(Prop(compact.f.items[k], "i")) \div 4)
                                % 2 = 1]]]]

\* decodeReplayFromUrl(encoded): the ReplayData, or null for an exception:
\* when atob or JSON.parse throws, when compact is null, when compact.f has
\* no map method, or when a frame is null
decodeReplayFromUrl(encoded) ==
  LET compact == JSONparse(atob(encoded))
  IN  IF compact.type \in {"thrown", "null"} THEN Null
      ELSE IF Prop(compact, "f").type # "array" THEN Null
      ELSE IF \E k \in 1..Len(compact.f.items) :
                 compact.f.items[k].type = "null"
      THEN Null
      ELSE DecodedReplay(compact)

MaxStoredReplays == 20

\* DEFAULT_STATS; bestTime is 999999 seconds until a run has been recorded
DEFAULT_STATS ==
  [totalRuns |-> 0, totalWins |-> 0, bestTime |-> <<999999>>, totalScore |-> 0]

EmptyStorage == [items |-> <<>>, index |-> <<>>, stats |-> DEFAULT_STATS]

\* localStorage.setItem(REPLAY_PREFIX + id, ...) on the list of stored items
SetItem(items, id, data) ==
  IF \E k \in 1..Len(items) : items[k].id = id
  THEN [k \in 1..Len(items) |->
          IF items[k].id = id THEN [id |-> id, data |-> data] ELSE items[k]]
  ELSE Append(items, [id |-> id, data |-> data])

\* saveReplay up to its await: the replay data is stored; the index that
\* listReplays reads here is the index of the store at this point
SaveCall(store, id, data) ==
  [store EXCEPT !.items = SetItem(store.items, id, data)]

\* saveReplay from its await on, with the index read before it: the new
\* entry goes first, the entries beyond the first 20 are dropped and their
\* replays removed, and the index is written
SaveResume(store, index, id, data, now) ==
  LET index1 == <<[id |-> id, date |-> now, mode |-> data.mode,
                   frames |-> Len(data.frames)]>> \o index
      kept == IF Len(index1) > MaxStoredReplays
              THEN SubSeq(index1, 1, MaxStoredReplays) ELSE index1
      removed == {index1[k].id : k \in (Len(kept) + 1)..Len(index1)}
  IN  [store EXCEPT
         !.items = SelectSeq(store.items, LAMBDA it : it.id \notin removed),
         !.index = kept]

\* StorageManager.saveReplay(id, data), awaited; now is Date.now()
saveReplay(store, id, data, now) ==
  SaveResume(SaveCall(store, id, data), store.index, id, data, now)

\* deleteReplay up to its await: the replay data is removed
DeleteCall(store, id) ==
  [store EXCEPT !.items = SelectSeq(store.items, LAMBDA it : it.id # id)]

\* deleteReplay from its await on, with the index read before it
DeleteResume(store, index, id) ==
  [store EXCEPT !.index = SelectSeq(index, LAMBDA r : r.id # id)]

\* StorageManager.deleteReplay(id), awaited
deleteReplay(store, id) ==
  DeleteResume(DeleteCall(store, id), store.index, id)

\* StorageManager.loadReplay(id): the stored data, null for an id that is
\* not stored
loadReplay(store, id) ==
  IF \E k \in 1..Len(store.items) : store.items[k].id = id
  THEN store.items[CHOOSE k \in 1..Len(store.items) :
                     store.items[k].id = id].data
  ELSE Null

\* the statistics update of endGame
UpdateStats(stats, human) ==
  [totalRuns |-> stats.totalRuns + 1,
   totalWins |-> stats.totalWins + (IF human.finishPosition = 1 THEN 1 ELSE 0),
   bestTime |-> IF Len(stats.bestTime) = 1 \/ DLt(human.finishTime, stats.bestTime)
                THEN human.finishTime ELSE stats.bestTime,
   totalScore |-> stats.totalScore + human.score]

(***************************************************************************)
(* Bounds of the exploration                                               *)
(***************************************************************************)
\* the controls change only at ticks that are multiples of InputPeriod
InputPeriod == 120
\* the number of times the human changes the controls during a race
MaxInputChanges == 1
\* the longest race followed (a race without a time limit is cut here)
MaxTicks == 400
\* the live races followed: mode, match length in quarter seconds, bot
\* count, and seed (the value of Date.now() when the race is created).  In
\* the procedural mode the match is short enough for the start straight
\* alone to reach the target length.
Race(m, len, bots, sd) ==
  [mode |-> m, matchLength |-> len, botCount |-> bots, seed |-> sd]

Races == { Race("classic", 24, 1, 1), Race("classic", 24, 3, 4),
           Race("custom", 15, 1, 3), Race("custom", 15, 2, 7),
           Race("custom", 15, 3, 4) }

Left == [left |-> TRUE, right |-> FALSE, jump |-> FALSE]
Right == [left |-> FALSE, right |-> TRUE, jump |-> FALSE]
Jump == [left |-> FALSE, right |-> FALSE, jump |-> TRUE]
Inputs == {NoInput, Left, Right, Jump}

(***************************************************************************)
(* State                                                                   *)
(***************************************************************************)
VARIABLES
  scene,            \* the active scene
  mode, settings, isReplay, replayData, seed, rng, track,
  players, botControllers, worldObjects,
  replayFrames, elapsedTime, tickCount, gameOver, finishCount, replayTick,
  isCountingDown, playerInput,
  controls,         \* Controls.input, the state of the buttons
  BOT_PROFILES,     \* the module-level profile table
  localStorage,     \* stored replays, their index and the statistics
  \* history
  inputChanges,     \* changes of the controls in the live race
  replayKind,       \* "live", "stored" or "url": how the race was started
  liveResult,       \* settings and final roster of the live race
  preCollision,     \* the roster of the last tick before its collision loop
  stunnedSince,     \* per player: ticks since a collision stunned it, while
                    \* it has stayed stunned; Undefined otherwise
  lastLink,         \* the text checkUrlReplay last read after "#replay=",
                    \* the replay it was encoded from and whether its
                    \* decoding was not null, until another race is started
  harness           \* a caller of BotController on its own: the profile
                    \* type, the situation and the seed it uses, and per
                    \* controller its generator, the inputs returned, the
                    \* FSM states passed through and the updates the first
                    \* controller had made when it was constructed

vars == <<scene, mode, settings, isReplay, replayData, seed, rng, track,
          players, botControllers, worldObjects, replayFrames, elapsedTime,
          tickCount, gameOver, finishCount, replayTick, isCountingDown,
          playerInput, controls, BOT_PROFILES, localStorage, inputChanges,
          replayKind, liveResult, preCollision, stunnedSince, lastLink, harness>>

NoReplay ==
  [version |-> 0, seed |-> 0, mode |-> "none", settings |-> EmptySettings,
   frames |-> <<>>]

NoResult == [settings |-> EmptySettings, players |-> <<>>]

\* a link and the replay it was encoded from (NoReplay for a text that
\* encodeReplayToUrl did not produce)
Link(text, from) ==
  [opened |-> TRUE, text |-> text, from |-> from, started |-> FALSE]

NoHarness ==
  [profileType |-> "none", situation |-> "none", seed |-> 0, rngs |-> <<>>,
   outputs |-> <<>>, states |-> <<>>, builtAfter |-> <<>>]

NoLink ==
  [opened |-> FALSE, text |-> EmptyText, from |-> NoReplay, started |-> FALSE]

totalTrackLength == TotalTrackLength(track)

\* the application after loading: the menu, nothing stored
InitGame ==
  /\ scene = "MenuScene"
  /\ mode = "classic" /\ settings = EmptySettings
  /\ isReplay = FALSE /\ replayData = NoReplay
  /\ seed = 0 /\ rng = RngOfSeed(0) /\ track = <<>>
  /\ players = <<>> /\ botControllers = <<>> /\ worldObjects = <<>>
  /\ replayFrames = <<>> /\ elapsedTime = DZero /\ tickCount = 0
  /\ gameOver = FALSE /\ finishCount = 0 /\ replayTick = 0
  /\ isCountingDown = TRUE /\ playerInput = NoInput
  /\ controls = NoInput
  /\ BOT_PROFILES = BOT_PROFILES_INITIAL
  /\ localStorage = EmptyStorage
  /\ inputChanges = 0 /\ replayKind = "live" /\ liveResult = NoResult
  /\ preCollision = <<>> /\ stunnedSince = <<>>
  /\ lastLink = NoLink

Init == InitGame /\ harness = NoHarness

\* GameScene.init and GameScene.create for the scene data (mode, settings,
\* replay); now is Date.now().  data.settings is an object in every caller,
\* so DEFAULT_SETTINGS is never substituted.
StartGame(dataMode, dataSettings, dataIsReplay, dataReplay, now) ==
  LET sd == IF dataIsReplay THEN dataReplay.seed ELSE now
      md == IF dataMode = NoMode THEN "classic" ELSE dataMode
      trk == IF md = "classic"
                \/ (dataIsReplay /\ dataReplay.mode = "classic")
             THEN getClassicTrack ELSE createTrack(dataSettings)
      ps == createPlayers(dataSettings, trk)
  IN  /\ scene' = "GameScene"
      /\ mode' = md /\ settings' = dataSettings
      /\ isReplay' = dataIsReplay /\ replayData' = dataReplay
      /\ seed' = sd
      /\ rng' = IF sd = Undefined THEN RngOfUndefined ELSE RngOfSeed(sd)
      /\ track' = trk
      /\ players' = ps
      /\ botControllers' = createControllers(dataSettings, BOT_PROFILES)
      /\ worldObjects' = buildWorldObjects(trk)
      /\ replayFrames' = <<>> /\ elapsedTime' = DZero /\ tickCount' = 0
      /\ gameOver' = FALSE /\ finishCount' = 0 /\ replayTick' = 0
      /\ isCountingDown' = TRUE /\ playerInput' = NoInput
      /\ preCollision' = ps
      /\ stunnedSince' = [i \in 1..Len(ps) |-> Undefined]
      /\ UNCHANGED <<BOT_PROFILES, localStorage>>

\* MenuScene: a mode button starts a live race with the loaded settings
StartRace ==
  /\ scene = "MenuScene"
  /\ \E race \in Races :
       LET st == [botCount |-> race.botCount, matchLength |-> race.matchLength]
       IN  /\ race.mode = "classic" \/ TargetLengthReached(300, st)
           /\ StartGame(race.mode, st, FALSE, NoReplay, race.seed)
  /\ controls' = NoInput
  /\ inputChanges' = 0 /\ replayKind' = "live"
  /\ lastLink' = NoLink
  /\ UNCHANGED <<liveResult, harness>>

\* the end of the countdown: the tween's onComplete
CountdownEnd ==
  /\ scene = "GameScene" /\ isCountingDown
  /\ isCountingDown' = FALSE
  /\ UNCHANGED <<scene, mode, settings, isReplay, replayData, seed, rng,
                 track, players, botControllers, worldObjects, replayFrames,
                 elapsedTime, tickCount, gameOver, finishCount, replayTick,
                 playerInput, controls, BOT_PROFILES, localStorage,
                 inputChanges, replayKind, liveResult, preCollision,
                 stunnedSince, lastLink, harness>>

\* Controls: a button is pressed or released during a live race
PressInput ==
  /\ scene = "GameScene" /\ ~isReplay /\ ~gameOver
  /\ tickCount % InputPeriod = 0
  /\ inputChanges < MaxInputChanges
  /\ \E i \in Inputs : i # controls /\ controls' = i
  /\ inputChanges' = inputChanges + 1
  /\ UNCHANGED <<scene, mode, settings, isReplay, replayData, seed, rng,
                 track, players, botControllers, worldObjects, replayFrames,
                 elapsedTime, tickCount, gameOver, finishCount, replayTick,
                 isCountingDown, playerInput, BOT_PROFILES, localStorage,
                 replayKind, liveResult, preCollision, stunnedSince,
                 lastLink, harness>>

\* this.players.find(p => !p.isBot)
HumanIndex(ps) ==
  CHOOSE i \in 1..Len(ps) : ~ps[i].isBot /\ \A j \in 1..(i - 1) : ps[j].isBot

\* the players an unshielded collision stuns in a roster
StunnedByCollision(ps) ==
  {i \in 1..Len(ps) :
     /\ ~ps[i].hasShield
     /\ \E j \in 1..Len(ps) :
          j # i /\ checkPlayerCollision(ps[IF i < j THEN i ELSE j],
                                        ps[IF i < j THEN j ELSE i])}

\* a replay that never applies its frames
ReplayInputStale(frames, k, current) == current

\* the input of a replay tick: frames[replayTick].inputs if that frame
\* exists, the input of the tick before otherwise
ReplayInput(frames, k, current) ==
  IF k < Len(frames) THEN frames[k + 1].inputs ELSE current

\* the end of update: the force-finish when the race is over
EndOfTick(pin, elapsed, st, ob, fin, over) ==
  [input |-> pin, elapsed |-> elapsed,
   moved |-> st.players, ctrls |-> st.ctrls, rng |-> st.rng,
   profiles |-> st.profiles, objects |-> ob.worldObjects,
   end |-> IF over
           THEN FinishFrom(fin.players, fin.finishCount, 1, elapsed,
                           settings, totalTrackLength, TRUE)
           ELSE fin,
   over |-> over]

AfterFinish(pin, elapsed, st, ob, fin) ==
  EndOfTick(pin, elapsed, st, ob, fin,
            TimeLimitReached(elapsed, settings) \/ AllFinished(fin.players))

AfterObjects(pin, elapsed, st, ob) ==
  AfterFinish(pin, elapsed, st, ob,
              FinishFrom(ob.players, finishCount, 1, elapsed, settings,
                         totalTrackLength, FALSE))

AfterBots(pin, elapsed, st) ==
  AfterObjects(pin, elapsed, st,
               checkWorldObjectCollisions(
                 CollisionLoop(st.players, RosterPairs(Len(st.players)), 1),
                 worldObjects, track))

\* the physics of the human with the input of the tick
AfterHuman(pin, h) ==
  [players |->
     [players EXCEPT
        ![h] = updatePlayerPhysics(
                 players[h], pin,
                 getSegment(track, players[h].distanceTraveled))],
   ctrls |-> botControllers, rng |-> rng, profiles |-> BOT_PROFILES]

\* the human, then the bots
AfterInput(pin, elapsed, h) ==
  AfterBots(pin, elapsed, BotsFrom(1, AfterHuman(pin, h), track))

\* the input of the tick: the controls, or the frame of the replay
TickInput ==
  IF ~isReplay THEN controls
  ELSE ReplayInput(replayData.frames, replayTick, playerInput)

\* everything one call of GameScene.update computes
TickOutcome ==
  AfterInput(TickInput, DAdd(elapsedTime, FIXED_DT), HumanIndex(players))

\* endGame of a live race: the replay and the statistics are stored
EndGameStore(store, data, human, now) ==
  LET saved == saveReplay(store, now, data, now)
  IN  [saved EXCEPT !.stats = UpdateStats(store.stats, human)]

\* GameScene.update
Tick ==
  /\ scene = "GameScene" /\ ~isCountingDown /\ ~gameOver
  /\ tickCount < MaxTicks
  /\ \E r \in {TickOutcome} :
     LET frames == IF isReplay THEN replayFrames
                   ELSE Append(replayFrames,
                               [tick |-> tickCount + 1, inputs |-> r.input])
         hit == StunnedByCollision(r.moved)
     IN  /\ elapsedTime' = r.elapsed
         /\ tickCount' = tickCount + 1
         /\ playerInput' = r.input
         /\ replayFrames' = frames
         /\ replayTick' = IF isReplay /\ replayTick < Len(replayData.frames)
                          THEN replayTick + 1 ELSE replayTick
         /\ players' = r.end.players
         /\ botControllers' = r.ctrls
         /\ rng' = r.rng
         /\ BOT_PROFILES' = r.profiles
         /\ worldObjects' = r.objects
         /\ finishCount' = r.end.finishCount
         /\ gameOver' = r.over
         /\ localStorage' =
              IF r.over /\ ~isReplay
              THEN EndGameStore(localStorage,
                                [version |-> 1, seed |-> seed, mode |-> mode,
                                 settings |-> settings, frames |-> frames],
                                r.end.players[HumanIndex(r.end.players)],
                                seed + 1)
              ELSE localStorage
         /\ liveResult' = IF r.over /\ ~isReplay
                          THEN [settings |-> settings,
                                players |-> r.end.players]
                          ELSE liveResult
         /\ preCollision' = r.moved
         /\ stunnedSince' =
              [i \in 1..Len(players) |->
                 IF r.end.players[i].finished
                    \/ ~DPos(r.end.players[i].stunTimer)
                 THEN Undefined
                 ELSE IF stunnedSince[i] # Undefined THEN stunnedSince[i] + 1
                 ELSE IF i \in hit THEN 0 ELSE Undefined]
  /\ UNCHANGED <<scene, mode, settings, isReplay, replayData, seed, track,
                 isCountingDown, controls, inputChanges, replayKind,
                 lastLink, harness>>

\* ReplayScene.playReplay: a stored replay is loaded and run
PlayReplay ==
  /\ scene = "GameScene" /\ gameOver
  /\ \E k \in 1..Len(localStorage.index) :
       LET replay == loadReplay(localStorage, localStorage.index[k].id)
       IN  StartGame(replay.mode, replay.settings, TRUE, replay, 0)
  /\ replayKind' = "stored" /\ lastLink' = NoLink
  /\ UNCHANGED <<controls, inputChanges, liveResult, harness>>

\* the replays other players have shared: one frame of each of the eight
\* inputs at two tick numbers, no frame, and frames whose ticks are neither
\* increasing nor distinct
ForeignFrames ==
  { <<[tick |-> t, inputs |-> in]>> :
      t \in {1, 9}, in \in [left : BOOLEAN, right : BOOLEAN, jump : BOOLEAN] }
  \cup { <<>>,
          << [tick |-> 5, inputs |-> [left |-> TRUE, right |-> FALSE,
                                      jump |-> TRUE]],
             [tick |-> 5, inputs |-> [left |-> FALSE, right |-> TRUE,
                                      jump |-> FALSE]],
             [tick |-> 2, inputs |-> [left |-> TRUE, right |-> TRUE,
                                      jump |-> TRUE]] >> }

ForeignReplays ==
  { [version |-> IF Len(f) = 1 THEN 1 ELSE 2, seed |-> 7 * Len(f),
     mode |-> IF Len(f) = 3 THEN "classic" ELSE "custom",
     settings |-> [botCount |-> 0, matchLength |-> 15], frames |-> f]
    : f \in ForeignFrames }

\* texts after "#replay=" that encodeReplayToUrl does not produce
MalformedJson ==
  { Null, JNumber(5), JString("x"), JArray(<<>>),
    [type |-> "object"],
    [type |-> "object", v |-> JNumber(1), s |-> JNumber(7),
     m |-> JString("custom")],
    JCompact(JNumber(1), JNumber(7), JString("custom"), JNumber(3)),
    JCompact(JNumber(1), JNumber(7), JString("custom"), JArray(<<Null>>)),
    [type |-> "object", s |-> JNumber(7), m |-> JString("custom"),
     f |-> JArray(<<>>)],
    [type |-> "object", v |-> JNumber(1), m |-> JString("custom"),
     f |-> JArray(<<>>)],
    [type |-> "object", v |-> JNumber(1), s |-> JNumber(7),
     f |-> JArray(<<>>)],
    JCompact(JNumber(1), JNumber(7), JString("custom"),
             JArray(<<[type |-> "object", i |-> JNumber(5)]>>)),
    JCompact(JNumber(1), JNumber(7), JString("custom"),
             JArray(<<[type |-> "object", t |-> JNumber(1)]>>)) }

MalformedTexts ==
  {EmptyText, PlainText, btoa(PlainText)}
  \cup { btoa(JSONstringify(value)) : value \in MalformedJson }

\* the links that can be opened: on the menu one that another player shared
\* or a malformed one, after a race the link of a stored replay
\* (ReplayScene.shareReplay)
LinksToOpen ==
  IF scene = "MenuScene"
  THEN { Link(encodeReplayToUrl(r), r) : r \in ForeignReplays }
       \cup { Link(text, NoReplay) : text \in MalformedTexts }
  ELSE IF scene = "GameScene" /\ gameOver
  THEN { Link(encodeReplayToUrl(
                loadReplay(localStorage, localStorage.index[k].id)),
              loadReplay(localStorage, localStorage.index[k].id))
         : k \in 1..Len(localStorage.index) }
  ELSE {}

\* ReplayScene.checkUrlReplay: the text after "#replay=" is decoded, and the
\* decoded replay is run unless it is null
CheckUrlReplay ==
  /\ \E link \in LinksToOpen :
       \E replay \in {decodeReplayFromUrl(link.text)} :
         /\ lastLink' = [link EXCEPT !.started = (replay # Null)]
         /\ IF replay # Null
            THEN /\ StartGame(replay.mode, replay.settings, TRUE, replay, 0)
                 /\ replayKind' = IF scene = "MenuScene" THEN "link"
                                  ELSE "url"
            ELSE UNCHANGED <<scene, mode, settings, isReplay, replayData, seed,
                             rng, track, players, botControllers, worldObjects,
                             replayFrames, elapsedTime, tickCount, gameOver,
                             finishCount, replayTick, isCountingDown,
                             playerInput, BOT_PROFILES, localStorage,
                             preCollision, stunnedSince, replayKind>>
  /\ UNCHANGED <<controls, inputChanges, liveResult, harness>>

Next ==
  \/ StartRace
  \/ CountdownEnd
  \/ PressInput
  \/ Tick
  \/ PlayReplay
  \/ CheckUrlReplay

Spec == Init /\ [][Next]_vars

(***************************************************************************)
(* BotController on its own (as ai.test.ts drives it): a caller constructs *)
(* controllers of one profile type and updates each with a generator of    *)
(* its own, made from the same seed, and with the same bot, players and    *)
(* segment on every update.                                                *)
(***************************************************************************)
\* the updates of a controller on its own, and of each of two controllers
MaxUpdates == 185
MaxSecond == 12
\* the runs of the test: for (let run = 0; run < 2; run++)
Runs == 2
\* the seeds of the caller's generators
CallerSeeds == {42, 7}

\* defaultSegment() of the test
defaultSegment ==
  createSegment("straight", 500, 5, 98, -5, <<Obj("barrel", 2, 50)>>,
                <<Obj("speed_boost", 0, 30)>>)

\* the situations: the human beside the bot (the test's), the human 150
\* ahead of it, the bot holding a shield with the human beside it, and the
\* bot alone
Situations == {"beside", "ahead", "shielded", "alone"}

CallerBot(situation, profileType) ==
  IF situation = "shielded"
  THEN applyPowerup(createPlayerState("b1", 2, TRUE, profileType), "shield")
  ELSE createPlayerState("b1", 2, TRUE, profileType)

CallerPlayers(situation, profileType) ==
  IF situation = "alone" THEN <<CallerBot(situation, profileType)>>
  ELSE << [createPlayerState("p1", 2, FALSE, "none") EXCEPT
             !.distanceTraveled = IF situation = "ahead" THEN 150 * PosScale
                                  ELSE 0],
          CallerBot(situation, profileType) >>

InitBots ==
  /\ InitGame
  /\ harness \in { [NoHarness EXCEPT !.profileType = t, !.situation = sit,
                                      !.seed = sd] :
                    t \in {ProfileTypes[k] : k \in 1..Len(ProfileTypes)},
                    sit \in Situations, sd \in CallerSeeds }

gameVars == <<scene, mode, settings, isReplay, replayData, seed, rng, track,
              players, worldObjects, replayFrames, elapsedTime, tickCount,
              gameOver, finishCount, replayTick, isCountingDown, playerInput,
              controls, localStorage, inputChanges, replayKind, liveResult,
              preCollision, stunnedSince, lastLink>>

\* new BotController(profileType, new SeededRNG(seed)); the second one is
\* constructed before the first has made more than MaxSecond updates
Construct ==
  /\ Len(botControllers) < Runs
  /\ botControllers # <<>> => Len(harness.outputs[1]) <= MaxSecond
  /\ botControllers' =
       Append(botControllers,
              NewBotController(harness.profileType, BOT_PROFILES))
  /\ harness' = [harness EXCEPT
                   !.rngs = Append(@, RngOfSeed(harness.seed)),
                   !.outputs = Append(@, <<>>),
                   !.states = Append(@, <<>>),
                   !.builtAfter =
                      Append(@, IF botControllers = <<>> THEN 0
                                ELSE Len(harness.outputs[1]))]
  /\ UNCHANGED <<gameVars, BOT_PROFILES>>

\* controller.update(bot, players, segment, rng) on controller k, the
\* first one until the second one is in use
Update ==
  \E k \in 1..Len(botControllers) :
    /\ Len(harness.outputs[k])
         < (IF Len(botControllers) = 1 THEN MaxUpdates ELSE MaxSecond)
    /\ k = 1 /\ Len(botControllers) > 1 => harness.outputs[2] = <<>>
    /\ \E u \in {BotUpdate(botControllers[k],
                            CallerBot(harness.situation, harness.profileType),
                            CallerPlayers(harness.situation,
                                          harness.profileType),
                            defaultSegment, harness.rngs[k], BOT_PROFILES)} :
         /\ botControllers' = [botControllers EXCEPT ![k] = u.ctrl]
         /\ BOT_PROFILES' = u.profiles
         /\ harness' = [harness EXCEPT
                          !.rngs[k] = u.out.rng,
                          !.outputs[k] = Append(@, u.out.input),
                          !.states[k] = Append(@, u.ctrl.state)]
    /\ UNCHANGED gameVars

NextBots ==
  \/ Construct
  \/ Update

SpecBots == InitBots /\ [][NextBots]_vars

(***************************************************************************)
(* The caller of engine.test.ts 'nextInt returns values within range': a   *)
(* generator of its own, made from a seed, some calls of next() and then   *)
(* calls of nextInt(min, max) with the same range.                         *)
(***************************************************************************)
\* the calls of nextInt: for (let i = 0; i < 100; i++)
MaxCalls == 100
\* the calls of next() before them
MaxDraws == 3

\* the seeds: those of the tests, 0, and two others
RngSeeds == {42, 123, 0, 7, 653637408, 2117335195}

\* the ranges <<min, max>>: that of the test, those of createTrack, and one
\* with a negative lower end
RngRanges == {<<0, 10>>, <<150, 500>>, <<0, 3>>, <<-5, 5>>}

NewCaller(sd, range) ==
  [seed |-> sd, min |-> range[1], max |-> range[2], rng |-> RngOfSeed(sd),
   draws |-> 0, values |-> <<>>]

InitRng ==
  /\ InitGame
  /\ harness \in {NewCaller(sd, range) : sd \in RngSeeds,
                                          range \in RngRanges}

\* rng.next(), its value not used
NextCall ==
  /\ harness.values = <<>>
  /\ harness.draws < MaxDraws
  /\ harness' = [harness EXCEPT !.rng = RngStep(@), !.draws = @ + 1]
  /\ UNCHANGED <<gameVars, botControllers, BOT_PROFILES>>

\* const val = rng.nextInt(min, max)
NextIntCall ==
  /\ Len(harness.values) < MaxCalls
  /\ harness' = [harness EXCEPT
                   !.rng = RngStep(@),
                   !.values = Append(@, nextInt(RngStep(harness.rng),
                                                harness.min, harness.max))]
  /\ UNCHANGED <<gameVars, botControllers, BOT_PROFILES>>

NextRng ==
  \/ NextCall
  \/ NextIntCall

SpecRng == InitRng /\ [][NextRng]_vars

(***************************************************************************)
(* The caller of engine.test.ts 'faster time gives higher score':          *)
(* calculateScore for one position, field size and match length and for    *)
(* the finish times the Driver produces, elapsedTime after each tick.       *)
(***************************************************************************)
\* <<position, totalPlayers>>
ScoreFields == {<<1, 2>>, <<2, 2>>, <<1, 8>>, <<8, 8>>}
\* matchLength in quarter seconds: 3.75 s, 6 s and 45 s
ScoreLengths == {15, 24, 180}

NewScorer(field, len) ==
  [position |-> field[1], totalPlayers |-> field[2], matchLength |-> len,
   time |-> DZero, times |-> <<>>, scores |-> <<>>]

InitScore ==
  /\ InitGame
  /\ harness \in {NewScorer(field, len) : field \in ScoreFields,
                                           len \in ScoreLengths}

\* this.elapsedTime += dt; calculateScore(position, totalPlayers,
\* this.elapsedTime, matchLength)
ScoreCall ==
  /\ Len(harness.scores) < MaxTicks
  /\ \E t \in {DAdd(harness.time, FIXED_DT)} :
       harness' = [harness EXCEPT
                     !.time = t,
                     !.times = Append(@, t),
                     !.scores = Append(@, calculateScore(harness.position,
                                                         harness.totalPlayers,
                                                         t,
                                                         harness.matchLength))]
  /\ UNCHANGED <<gameVars, botControllers, BOT_PROFILES>>

NextScore == ScoreCall

SpecScore == InitScore /\ [][NextScore]_vars

(***************************************************************************)
(* The caller of the storage tests: saveReplay and deleteReplay on the     *)
(* local storage, each call awaited before the next.                       *)
(***************************************************************************)
\* the calls of saveReplay, of saveReplay with an id saved before, and of
\* deleteReplay
MaxSaves == 22
MaxRepeats == 1
MaxDeletes == 1

\* the replay of the tests
TestReplay ==
  [version |-> 1, seed |-> 42, mode |-> "classic", settings |-> EmptySettings,
   frames |-> <<>>]

\* the caller: the time of Date.now(), and the calls made
NewStoreCaller == [now |-> 1, saves |-> 0, repeats |-> 0, deletes |-> 0]

InitStore ==
  /\ InitGame
  /\ harness = NewStoreCaller

storeVars == <<scene, mode, settings, isReplay, replayData, seed, rng, track,
               players, worldObjects, replayFrames, elapsedTime, tickCount,
               gameOver, finishCount, replayTick, isCountingDown, playerInput,
               controls, inputChanges, replayKind, liveResult, preCollision,
               stunnedSince, lastLink, botControllers, BOT_PROFILES>>

\* the ids a caller picks among those in the index: the newest and the
\* oldest
IndexEnds(store) ==
  IF store.index = <<>> THEN {}
  ELSE {store.index[1].id, store.index[Len(store.index)].id}

\* await StorageManager.saveReplay(id, replay) with an id not used before
SaveNew ==
  /\ harness.saves < MaxSaves
  /\ localStorage' = saveReplay(localStorage, harness.now, TestReplay,
                                harness.now)
  /\ harness' = [harness EXCEPT !.now = @ + 1, !.saves = @ + 1]
  /\ UNCHANGED storeVars

\* await StorageManager.saveReplay(id, replay) with an id of the index
SaveAgain ==
  /\ harness.saves < MaxSaves
  /\ harness.repeats < MaxRepeats
  /\ \E id \in IndexEnds(localStorage) :
       localStorage' = saveReplay(localStorage, id, TestReplay, harness.now)
  /\ harness' = [harness EXCEPT !.now = @ + 1, !.saves = @ + 1,
                                !.repeats = @ + 1]
  /\ UNCHANGED storeVars

\* await StorageManager.deleteReplay(id)
DeleteOne ==
  /\ harness.deletes < MaxDeletes
  /\ \E id \in IndexEnds(localStorage) :
       localStorage' = deleteReplay(localStorage, id)
  /\ harness' = [harness EXCEPT !.now = @ + 1, !.deletes = @ + 1]
  /\ UNCHANGED storeVars

NextStore ==
  \/ SaveNew
  \/ SaveAgain
  \/ DeleteOne

SpecStore == InitStore /\ [][NextStore]_vars

(***************************************************************************)
(* The caller of engine.test.ts 'applyObstacleEffect' and 'applyPowerup':  *)
(* a new player with a forward speed, and effects applied to it.           *)
(***************************************************************************)
\* the effects applied to one player
MaxEffects == 3

\* player.forwardSpeed = 200 of the tests, and others
TestSpeeds == {0, 200, 333, 400}

EffectTypes == {"barrel", "ring", "bumper", "speed_boost", "shield",
                "jump_boost"}

\* createPlayerState('p1', 'Test', 2, false, 0) with a forward speed
TestPlayer(speed) ==
  [createPlayerState("p1", 2, FALSE, "none") EXCEPT
     !.forwardSpeed = speed * SpeedScale]

InitEffects ==
  /\ InitGame
  /\ harness \in {[player |-> TestPlayer(v), before |-> TestPlayer(v),
                    type |-> "none", applied |-> 0] : v \in TestSpeeds}

\* applyObstacleEffect(player, type) or applyPowerup(player, type)
ApplyEffect ==
  /\ harness.applied < MaxEffects
  /\ \E type \in EffectTypes :
       harness' = [player |-> IF type \in {"barrel", "ring", "bumper"}
                              THEN applyObstacleEffect(harness.player, type)
                              ELSE applyPowerup(harness.player, type),
                   before |-> harness.player,
                   type |-> type,
                   applied |-> harness.applied + 1]
  /\ UNCHANGED <<gameVars, botControllers, BOT_PROFILES>>

NextEffects == ApplyEffect

SpecEffects == InitEffects /\ [][NextEffects]_vars

(***************************************************************************)
(* Callers of StorageManager that do not await: a call runs up to its      *)
(* await, where it has read the index, and is resumed later, the calls in  *)
(* flight in the order they were made                                      *)
(***************************************************************************)
MaxAsyncCalls == 4
MaxInFlight == 2
ReplayIds == {1, 2, 3}

\* the caller: the time of Date.now(), the calls made, the calls in flight
\* with the index each has read, and the calls made since no call was in
\* flight
NewAsyncCaller == [now |-> 1, calls |-> 0, inflight |-> <<>>, batch |-> <<>>]

InitAsync ==
  /\ InitGame
  /\ harness = NewAsyncCaller

Called(op, id) ==
  [harness EXCEPT
     !.now = @ + 1, !.calls = @ + 1,
     !.inflight = Append(@, [op |-> op, id |-> id,
                             index |-> localStorage.index]),
     !.batch = IF harness.inflight = <<>> THEN <<[op |-> op, id |-> id]>>
               ELSE Append(@, [op |-> op, id |-> id])]

\* StorageManager.saveReplay(id, replay), not awaited: up to its await
SaveStart ==
  /\ harness.calls < MaxAsyncCalls
  /\ Len(harness.inflight) < MaxInFlight
  /\ \E id \in ReplayIds :
       /\ localStorage' = SaveCall(localStorage, id, TestReplay)
       /\ harness' = Called("save", id)
  /\ UNCHANGED storeVars

\* StorageManager.deleteReplay(id), not awaited: up to its await
DeleteStart ==
  /\ harness.calls < MaxAsyncCalls
  /\ Len(harness.inflight) < MaxInFlight
  /\ \E id \in ReplayIds :
       /\ localStorage' = DeleteCall(localStorage, id)
       /\ harness' = Called("delete", id)
  /\ UNCHANGED storeVars

\* the oldest call in flight goes on from its await
Resume ==
  /\ harness.inflight # <<>>
  /\ \E c \in {Head(harness.inflight)} :
       localStorage' =
         IF c.op = "save"
         THEN SaveResume(localStorage, c.index, c.id, TestReplay, harness.now)
         ELSE DeleteResume(localStorage, c.index, c.id)
  /\ harness' = [harness EXCEPT !.now = @ + 1, !.inflight = Tail(@)]
  /\ UNCHANGED storeVars

NextAsync ==
  \/ SaveStart
  \/ DeleteStart
  \/ Resume

SpecAsync == InitAsync /\ [][NextAsync]_vars

(***************************************************************************)
(* Replays                                                                 *)
(***************************************************************************)
\* what a race leaves of each player, in roster order
Outcome(ps) ==
  [i \in 1..Len(ps) |->
     [finished |-> ps[i].finished, finishPosition |-> ps[i].finishPosition,
      finishTime |-> ps[i].finishTime, score |-> ps[i].score]]

\* the profiles of the bots of a roster, in roster order
Roster(ps) == [i \in 1..Len(ps) |-> ps[i].botProfile]

\* C1: a race replayed from the stored ReplayData ends with the outcome of
\* the live race it was recorded from: every player has the same finished
\* flag, finish position, finish time and score.
C1_ReplayDeterminism ==
  (scene = "GameScene" /\ replayKind = "stored" /\ gameOver)
    => Outcome(players) = Outcome(liveResult.players)

\* a stored replay has ended whose live race had the human change the
\* controls and finish before the time limit, ahead of a bot
C1_Witness ==
  /\ scene = "GameScene" /\ replayKind = "stored" /\ gameOver
  /\ replayTick = Len(replayData.frames)
  /\ \E k \in 1..Len(replayData.frames) :
       replayData.frames[k].inputs # NoInput
  /\ Len(players) > 1
  /\ DLt(players[1].finishTime, players[2].finishTime)

\* C2: a race replayed from the transport string of a stored replay has the
\* roster and the match length of the live race and, when it has ended, its
\* outcome.
C2_UrlReplayReproduces ==
  (scene = "GameScene" /\ replayKind = "url")
    => /\ Roster(players) = Roster(liveResult.players)
       /\ settings.matchLength = liveResult.settings.matchLength
       /\ gameOver => Outcome(players) = Outcome(liveResult.players)

\* a replay started from the transport string runs without the bots and
\* without the match length of the live race
C2_Diverges ==
  /\ scene = "GameScene" /\ replayKind = "url"
  /\ Len(players) < Len(liveResult.players)
  /\ settings.matchLength = Undefined
  /\ liveResult.settings.matchLength # Undefined

(***************************************************************************)
(* Stun and lane bounds                                                    *)
(***************************************************************************)
\* STUN_DURATION / FIXED_DT = 0.4 * 60 ticks
StunTicks == (2 * TicksPerSecond) \div 5

\* C3: while the race is running, a player stunned by a collision does not
\* stay stunned for more than StunTicks ticks after the tick of the
\* collision: one tick later at most its stunTimer is 0 again.
C3_StunIsTemporary ==
  (scene = "GameScene" /\ ~gameOver)
    => \A i \in 1..Len(players) :
         stunnedSince[i] # Undefined => stunnedSince[i] <= StunTicks

\* a running race in which a player has been stunned without a break for a
\* whole second since a collision, and is in a collision again
C3_StunLocked ==
  /\ scene = "GameScene" /\ ~gameOver
  /\ \E i \in 1..Len(players) :
       /\ stunnedSince[i] # Undefined
       /\ stunnedSince[i] >= TicksPerSecond
       /\ DPos(players[i].stunTimer)
       /\ i \in StunnedByCollision(preCollision)

\* the bounds of x on the segment that contains a distance
InLaneBounds(p, trk) ==
  LET segment == getSegment(trk, p.distanceTraveled)
  IN  LaneMin(segment.lanes) <= p.x /\ p.x <= LaneMax(segment.lanes)

\* C4: in every state of a race, the x of every player lies within the
\* bounds [centerX - halfWidth + 10, centerX + halfWidth - 10] of the segment
\* that contains the player's distanceTraveled.
C4_LaneBounds ==
  scene = "GameScene"
    => \A i \in 1..Len(players) : InLaneBounds(players[i], track)

\* a player has entered a segment of fewer lanes and is outside its bounds,
\* within the bounds of the segment it came from
C4_OutOfBounds ==
  /\ scene = "GameScene" /\ tickCount > 0
  /\ \E i \in 1..Len(players) :
       /\ ~InLaneBounds(players[i], track)
       /\ \E k \in 2..Len(track) :
            /\ getSegment(track, players[i].distanceTraveled) = track[k]
            /\ track[k].lanes < track[k - 1].lanes
            /\ LaneMin(track[k - 1].lanes) <= players[i].x
            /\ players[i].x <= LaneMax(track[k - 1].lanes)

(***************************************************************************)
(* The end of the race                                                     *)
(***************************************************************************)
\* ceil(matchLength / FIXED_DT) for a match length in quarter seconds
CeilTicks(len) == (len * TicksPerSecond + 3) \div 4

\* a race with a match length (every race but one started from a replay
\* whose settings were lost)
Timed == scene = "GameScene" /\ settings.matchLength # Undefined

\* the players that finished before the time of the last tick
Natural(ps) == {i \in 1..Len(ps) : ps[i].finished
                                    /\ DLt(ps[i].finishTime, elapsedTime)}

\* the players that finished in the last tick
Latest(ps) == {i \in 1..Len(ps) : ps[i].finished
                                   /\ ps[i].finishTime = elapsedTime}

\* C5, as stated: a race with a match length is over after at most
\* ceil(matchLength / FIXED_DT) ticks, and when it is over every player has
\* finished.
C5_Original ==
  Timed => /\ ~gameOver => tickCount < CeilTicks(settings.matchLength)
           /\ gameOver => AllFinished(players)

\* C5: a race with a match length is over after at most
\* ceil(matchLength / FIXED_DT) + 1 ticks (the elapsed time is a sum of
\* rounded steps), and when it is over every player has finished.
C5_Terminates ==
  Timed => /\ ~gameOver => tickCount < CeilTicks(settings.matchLength) + 1
           /\ gameOver => AllFinished(players)

\* a race ended by the time limit, one tick after ceil(matchLength /
\* FIXED_DT), with a player that had not crossed the line
C5_Witness ==
  /\ Timed /\ gameOver
  /\ tickCount = CeilTicks(settings.matchLength) + 1
  /\ Latest(players) # {}
  /\ \E i \in Latest(players) : players[i].distanceTraveled < totalTrackLength

\* C6: in every state of a race finishCount is the number of finished
\* players, and when the race is over the finish positions of the N players
\* are the distinct values 1..N.
C6_FinishPositions ==
  scene = "GameScene"
    => /\ finishCount = Cardinality({i \in 1..Len(players) :
                                       players[i].finished})
       /\ gameOver =>
            \A k \in 1..Len(players) :
              Cardinality({i \in 1..Len(players) :
                             players[i].finishPosition = k}) = 1

\* a race of three is over: one crossed the line, the others were
\* force-finished at the time limit
C6_Witness ==
  /\ scene = "GameScene" /\ gameOver /\ Len(players) = 3
  /\ Natural(players) # {}
  /\ Cardinality(Latest(players)) = 2
  /\ finishCount = 3

\* C7: when the race is over, a player with a lower finish position has a
\* finish time that is not later and a score that is strictly higher.
C7_ScoresFollowOrder ==
  (scene = "GameScene" /\ gameOver)
    => \A i, j \in 1..Len(players) :
         players[i].finishPosition < players[j].finishPosition
           => /\ DLe(players[i].finishTime, players[j].finishTime)
              /\ players[i].score > players[j].score

\* a race is over in which a player crossed the line with a time bonus and
\* two others were force-finished at the same time, with different scores
C7_Witness ==
  /\ Timed /\ gameOver
  /\ \E i \in Natural(players) :
       players[i].score > (Len(players) - players[i].finishPosition + 1) * 100
  /\ \E i, j \in Latest(players) :
       /\ players[i].finishPosition < players[j].finishPosition
       /\ players[i].score > players[j].score

(***************************************************************************)
(* Frame conditions of the engine                                          *)
(***************************************************************************)
\* the segment updatePlayerPhysics is called with for a player
SegmentOf(p) == getSegment(track, p.distanceTraveled)

C9_Original ==
  scene = "GameScene"
    => \A i \in 1..Len(players) : \A inp \in Inputs :
         DPos(players[i].stunTimer)
           => updatePlayerPhysics(players[i], inp, SegmentOf(players[i])).x
                = players[i].x

\* C9: updatePlayerPhysics with any input leaves the x of a player with
\* stunTimer > FIXED_DT unchanged (the timer is decremented before it is
\* tested).
C9_StunFreezesX ==
  scene = "GameScene"
    => \A i \in 1..Len(players) : \A inp \in Inputs :
         DLt(FIXED_DT, players[i].stunTimer)
           => updatePlayerPhysics(players[i], inp, SegmentOf(players[i])).x
                = players[i].x

\* a running player is stunned for more than a tick while it has lateral
\* speed, and the physics with the left input held leaves its x
C9_Witness ==
  /\ scene = "GameScene" /\ ~gameOver
  /\ \E i \in 1..Len(players) :
       /\ ~players[i].finished
       /\ DLt(FIXED_DT, players[i].stunTimer)
       /\ players[i].lateralSpeed # 0
       /\ updatePlayerPhysics(players[i], Left, SegmentOf(players[i])).x
            = players[i].x

(***************************************************************************)
(* Collisions                                                              *)
(***************************************************************************)
Swap(pair) == <<pair[2], pair[1]>>

Reverse(seq) == [k \in 1..Len(seq) |-> seq[Len(seq) + 1 - k]]

\* C10: for the roster each tick takes into its collision loop, every
\* colliding pair is left in the same state by resolveCollision(a, b) and
\* resolveCollision(b, a), and the loop gives the same roster when the pairs
\* are visited in the opposite order.
C10_CollisionOrder ==
  scene = "GameScene"
    => /\ \A i, j \in 1..Len(preCollision) :
            (i < j /\ checkPlayerCollision(preCollision[i], preCollision[j]))
              => resolveCollision(preCollision[i], preCollision[j])
                   = Swap(resolveCollision(preCollision[j], preCollision[i]))
       /\ CollisionLoop(preCollision, RosterPairs(Len(preCollision)), 1)
            = CollisionLoop(preCollision,
                            Reverse(RosterPairs(Len(preCollision))), 1)

\* two players collide at the same x, and each is pushed to the left when
\* it is the first argument of resolveCollision
C10_SameX ==
  /\ scene = "GameScene" /\ tickCount > 0
  /\ \E i, j \in 1..Len(preCollision) :
       /\ i < j
       /\ checkPlayerCollision(preCollision[i], preCollision[j])
       /\ preCollision[i].x = preCollision[j].x
       /\ ~preCollision[i].hasShield /\ ~preCollision[j].hasShield
       /\ resolveCollision(preCollision[i], preCollision[j])[1].lateralSpeed
            < preCollision[i].lateralSpeed
       /\ resolveCollision(preCollision[j], preCollision[i])[2].lateralSpeed
            > preCollision[i].lateralSpeed

(***************************************************************************)
(* Shields                                                                 *)
(***************************************************************************)
ObstacleTypes == {"barrel", "ring", "bumper"}

\* a player as it is and as it is after picking up a shield
WithShield(p) == applyPowerup(p, "shield")

Variants(p) == {p, WithShield(p)}

SameMotion(p, q) ==
  /\ p.stunTimer = q.stunTimer
  /\ p.forwardSpeed = q.forwardSpeed
  /\ p.lateralSpeed = q.lateralSpeed

\* the second player of a pair is pushed and stunned by resolveCollision
PushedAndStunned(before, after) ==
  /\ after.stunTimer = STUN_DURATION
  /\ Abs(after.lateralSpeed - before.lateralSpeed)
       = COLLISION_PUSH * SpeedScale

\* C11: for the players of every state of a race, each with and without a
\* shield: resolveCollision and applyObstacleEffect (barrel, ring, bumper)
\* leave stunTimer, forwardSpeed and lateralSpeed of a shielded player as
\* they were; of a shielded and an unshielded player only the unshielded one
\* is pushed and stunned; two shielded players are left unchanged.
C11_ShieldBlocks ==
  scene = "GameScene"
    => /\ \A i \in 1..Len(players) : \A type \in ObstacleTypes :
            SameMotion(applyObstacleEffect(WithShield(players[i]), type),
                       WithShield(players[i]))
       /\ \A i, j \in 1..Len(players) :
            i # j =>
              \A a \in Variants(players[i]) : \A b \in Variants(players[j]) :
                /\ a.hasShield => SameMotion(resolveCollision(a, b)[1], a)
                /\ b.hasShield => SameMotion(resolveCollision(a, b)[2], b)
                /\ (a.hasShield /\ ~b.hasShield)
                     => PushedAndStunned(b, resolveCollision(a, b)[2])
                /\ (~a.hasShield /\ b.hasShield)
                     => PushedAndStunned(a, resolveCollision(a, b)[1])
                /\ (a.hasShield /\ b.hasShield)
                     => resolveCollision(a, b) = <<a, b>>

\* two moving players collide; had the first a shield, the collision would
\* leave it as it is and stun the second, and a barrel would not slow it
C11_Witness ==
  /\ scene = "GameScene" /\ tickCount > 0
  /\ \E i, j \in 1..Len(preCollision) :
       /\ i < j
       /\ checkPlayerCollision(preCollision[i], preCollision[j])
       /\ preCollision[i].forwardSpeed > 0
       /\ ~preCollision[i].hasShield /\ ~preCollision[j].hasShield
       /\ ~DPos(preCollision[j].stunTimer)
       /\ resolveCollision(WithShield(preCollision[i]), preCollision[j])
            = <<WithShield(preCollision[i]),
                resolveCollision(preCollision[i], preCollision[j])[2]>>
       /\ applyObstacleEffect(WithShield(preCollision[i]), "barrel")
            = WithShield(preCollision[i])
       /\ applyObstacleEffect(preCollision[i], "barrel").forwardSpeed
            < preCollision[i].forwardSpeed

(***************************************************************************)
(* The collision predicate                                                 *)
(***************************************************************************)
\* (a.x - b.x)^2 + (a.distanceTraveled - b.distanceTraveled)^2
\*   < (2 * COLLISION_RADIUS)^2; a difference of 2 * COLLISION_RADIUS or more
\* in one coordinate decides it without squaring
Near(a, b) ==
  LET dx == Abs(a.x - b.x)
      dy == Abs(a.distanceTraveled - b.distanceTraveled)
      reach == 2 * COLLISION_RADIUS * PosScale
  IN  IF dx >= reach \/ dy >= reach THEN FALSE
      ELSE dx * dx + dy * dy < reach * reach

C13_CodecRoundTrip ==
  (lastLink.opened /\ lastLink.from # NoReplay) =>
    /\ lastLink.started
    /\ scene = "GameScene" /\ isReplay
    /\ replayData.version = lastLink.from.version
    /\ replayData.seed = lastLink.from.seed
    /\ replayData.mode = lastLink.from.mode
    /\ Len(replayData.frames) = Len(lastLink.from.frames)
    /\ \A k \in 1..Len(replayData.frames) :
         /\ replayData.frames[k].tick = lastLink.from.frames[k].tick
         /\ replayData.frames[k].inputs = lastLink.from.frames[k].inputs

\* a decoded replay of three frames whose ticks are 5, 5, 2 and whose first
\* frame has left and jump set
C13_Witness ==
  /\ lastLink.opened /\ lastLink.from # NoReplay
  /\ Len(replayData.frames) = 3
  /\ replayData.frames[1].tick = 5 /\ replayData.frames[3].tick = 2
  /\ replayData.frames[1].inputs.left /\ replayData.frames[1].inputs.jump
  /\ ~replayData.frames[2].inputs.left

\* ---------------------------------------------------------------------------
\* C14: decoding fails closed.  Whenever checkUrlReplay has read a text that
\* is not the encoding of a replay (the empty string, text that is not
\* base64, base64 of text that is not JSON, base64 of JSON that lacks the
\* version, the seed, the mode or a well-formed frame list),
\* decodeReplayFromUrl gave null and no race was started from it.
C14_DecodeFailsClosed ==
  (lastLink.opened /\ lastLink.from = NoReplay) =>
    /\ ~lastLink.started
    /\ decodeReplayFromUrl(lastLink.text) = Null
    /\ scene = "MenuScene"

\* a race driven by the decoding of JSON without a version: the replay has
\* an undefined version
C14_AcceptsMalformed ==
  /\ lastLink.opened /\ lastLink.from = NoReplay
  /\ lastLink.started
  /\ scene = "GameScene" /\ isReplay
  /\ replayData.version = Undefined
  /\ replayData.seed = 7
  /\ tickCount > 0

\* ---------------------------------------------------------------------------
\* C15: the recorded frames.  In every run, live or driven by a replay, the
\* recorded frame list has one frame per tick: a tick appends the frame that
\* carries its tick number and the input applied to the human player's
\* physics on it, and nothing else changes the frames of the run.
RecordsTick ==
  scene' = "GameScene" =>
    /\ Len(replayFrames') = tickCount'
    /\ tickCount' = tickCount + 1 =>
         replayFrames' = Append(replayFrames, [tick |-> tickCount',
                                               inputs |-> playerInput'])
    /\ tickCount' = tickCount => replayFrames' = replayFrames

C15_RecordsEveryFrame == [][RecordsTick]_vars

\* a run driven by a replay three ticks on, the human steered by the replay,
\* with no frame recorded
C15_NothingRecorded ==
  /\ scene = "GameScene" /\ isReplay
  /\ tickCount = 3
  /\ playerInput # NoInput
  /\ replayFrames = <<>>

\* ---------------------------------------------------------------------------
\* C16: the order within a tick.  When a tick is about to run, the roster
\* handed to the update of every unfinished bot is the roster of the end of
\* the tick before: no physics update has run before a bot decides.
Ticking == scene = "GameScene" /\ ~isCountingDown /\ ~gameOver

\* the state of the bot loop when the bot at index b takes its turn
AtTurn(b) ==
  BotsBefore(1, b, AfterHuman(TickInput, HumanIndex(players)), track)

C16_InputsBeforePhysics ==
  Ticking =>
    \A b \in 1..Len(players) :
      (players[b].isBot /\ ~players[b].finished) =>
        AtTurn(b).players = players

\* what the controller of bot b returns for the roster allPlayers
Decision(b, st, allPlayers) ==
  BotUpdate(st.ctrls[b], st.players[b], allPlayers,
            getSegment(track, st.players[b].distanceTraveled), st.rng,
            st.profiles).out.input

\* a tick in which a bot decides otherwise than it would for the roster of
\* the end of the tick before
C16_DecisionDiffers ==
  /\ Ticking
  /\ \E b \in 1..Len(players) :
       /\ players[b].isBot /\ ~players[b].finished
       /\ Decision(b, AtTurn(b), AtTurn(b).players)
            # Decision(b, AtTurn(b), players)

\* ---------------------------------------------------------------------------
\* C17: profile isolation.  After any sequence of updates of one controller
\* every entry of the BOT_PROFILES template, and the profile getProfile()
\* reports for every other controller (one that has made no update itself,
\* whether it was constructed before or after those updates), has its
\* original targetSpeedFactor and riskTolerance.
Untuned(prof, profileType) ==
  /\ prof.targetSpeedFactor
       = BOT_PROFILES_INITIAL[profileType].targetSpeedFactor
  /\ prof.riskTolerance = BOT_PROFILES_INITIAL[profileType].riskTolerance

C17_ProfileIsolation ==
  /\ \A t \in DOMAIN BOT_PROFILES : Untuned(BOT_PROFILES[t], t)
  /\ \A k \in 1..Len(botControllers) :
       harness.outputs[k] = <<>> =>
         Untuned(getProfile(botControllers[k], BOT_PROFILES),
                 botControllers[k].profileType)

\* two adaptive controllers, the first updated with the human 150 ahead, the
\* second never updated: the second reports a tuned profile
C17_Leaked ==
  /\ Len(botControllers) = 2
  /\ harness.profileType = "adaptive"
  /\ Len(harness.outputs[1]) > 0 /\ harness.outputs[2] = <<>>
  /\ getProfile(botControllers[2], BOT_PROFILES).riskTolerance
       > BOT_PROFILES_INITIAL["adaptive"].riskTolerance
  /\ BOT_PROFILES["adaptive"].targetSpeedFactor
       > BOT_PROFILES_INITIAL["adaptive"].targetSpeedFactor

\* ---------------------------------------------------------------------------
\* C18: AI determinism.  Two controllers of the same profile type, driven by
\* generators of the same seed through the same bot, players and segment,
\* return the same inputs and pass through the same FSM states, update by
\* update, whether the second one was constructed before or after the
\* updates of the first.
SameRun(a, b) ==
  \A k \in 1..Min(Len(harness.outputs[a]), Len(harness.outputs[b])) :
    /\ harness.outputs[a][k] = harness.outputs[b][k]
    /\ harness.states[a][k] = harness.states[b][k]

C18_AIDeterminism == Len(botControllers) = 2 => SameRun(1, 2)

\* two adaptive controllers after MaxSecond updates each, the second
\* constructed when the first had made them all and had tuned the profile;
\* inputs other than the neutral one were returned
C18_Witness ==
  /\ Len(botControllers) = 2
  /\ harness.profileType = "adaptive"
  /\ harness.builtAfter[2] = MaxSecond
  /\ Len(harness.outputs[1]) = MaxSecond
  /\ Len(harness.outputs[2]) = MaxSecond
  /\ ~Untuned(BOT_PROFILES["adaptive"], "adaptive")
  /\ \E k \in 1..MaxSecond : harness.outputs[2][k] # NoInput

\* ---------------------------------------------------------------------------
\* C19: the reaction delay.  For every profile and every seed the first
\* reactionDelay inputs a controller returns after its construction are
\* neutral: left, right and jump are all false.
C19_ReactionDelay ==
  \A c \in 1..Len(botControllers) :
    \A k \in 1..Len(harness.outputs[c]) :
      k <= BOT_PROFILES_INITIAL[harness.profileType].reactionDelay =>
        harness.outputs[c][k] = NoInput

\* the casual controller of the test (seed 42, the human beside the bot,
\* reaction delay 8) steers left on its first update
C19_SteersAtOnce ==
  /\ Len(botControllers) = 1
  /\ harness.profileType = "casual"
  /\ harness.situation = "beside" /\ harness.seed = 42
  /\ BOT_PROFILES_INITIAL["casual"].reactionDelay = 8
  /\ Len(harness.outputs[1]) = 1
  /\ harness.outputs[1][1].left

\* ---------------------------------------------------------------------------
\* C20: the safety valve of the FSM.  No controller is in chase or in
\* usePowerup for more than 180 consecutive updates after the one that took
\* it out of race, and none is in chase for more than 120 consecutive
\* updates after the one that entered it.
\* the number of latest consecutive updates of controller c that ended in a
\* state of S
HeldFor(c, S) ==
  LET st == harness.states[c]
      others == {k \in 1..Len(st) : st[k] \notin S}
  IN  IF others = {} THEN Len(st)
      ELSE Len(st) - (CHOOSE k \in others : \A j \in others : j <= k)

C20_SafetyValve ==
  \A c \in 1..Len(botControllers) :
    /\ HeldFor(c, {"chase", "usePowerup"}) <= 181
    /\ HeldFor(c, {"chase"}) <= 121

\* a controller with the human beside its bot has been in chase for the
\* last 182 updates
C20_ChaseHeld ==
  /\ Len(botControllers) = 1
  /\ harness.situation = "beside"
  /\ HeldFor(1, {"chase"}) >= 182
  /\ botControllers[1].state = "chase"
  /\ botControllers[1].stateTimer <= 120


\* ---------------------------------------------------------------------------
\* C21: stun has the highest priority.  For every bot that takes its turn
\* in a tick, and for that bot as it is, stunned and with its stun over,
\* the state of its controller after update is recover exactly when the
\* stunTimer of the bot passed to update is above 0.
StunVariants(bot) ==
  {bot, [bot EXCEPT !.stunTimer = STUN_DURATION],
   [bot EXCEPT !.stunTimer = DZero]}

StateAfterUpdate(b, st, bot) ==
  BotUpdate(st.ctrls[b], bot, st.players,
            getSegment(track, bot.distanceTraveled), st.rng,
            st.profiles).ctrl.state

C21_StunPriority ==
  Ticking =>
    \A b \in 1..Len(players) :
      (players[b].isBot /\ ~players[b].finished) =>
        \A bot \in StunVariants(players[b]) :
          (StateAfterUpdate(b, AtTurn(b), bot) = "recover")
            <=> DPos(bot.stunTimer)

\* a tick is about to run in which a bot whose controller is chasing is
\* stunned
C21_Witness ==
  /\ Ticking
  /\ \E b \in 1..Len(players) :
       /\ players[b].isBot /\ ~players[b].finished
       /\ botControllers[b].state = "chase"
       /\ DPos(players[b].stunTimer)


\* ---------------------------------------------------------------------------
\* C22: the adaptive ratchet.  In every step targetSpeedFactor and
\* riskTolerance of every profile do not decrease and stay at most 1; an
\* update changes the profile table only if the controller's profile has
\* adaptiveness above 0.5, the bot passed is not stunned and the human is
\* more than 100 ahead of it, and then only those two fields of that profile
\* change; a step that changes the table is such an update.
HumanAhead(bot, allPlayers) ==
  \E i \in 1..Len(allPlayers) :
    /\ ~allPlayers[i].isBot
    /\ \A j \in 1..(i - 1) : allPlayers[j].isBot
    /\ allPlayers[i].distanceTraveled > bot.distanceTraveled + 100 * PosScale

MayAdapt(ctrl, bot, allPlayers, profiles) ==
  /\ getProfile(ctrl, profiles).adaptiveness > 50
  /\ ~DPos(bot.stunTimer)
  /\ HumanAhead(bot, allPlayers)

Ratchets(before, after) ==
  \A t \in DOMAIN before :
    /\ after[t].targetSpeedFactor >= before[t].targetSpeedFactor
    /\ after[t].riskTolerance >= before[t].riskTolerance
    /\ after[t].targetSpeedFactor <= 100
    /\ after[t].riskTolerance <= 100
    /\ [after[t] EXCEPT !.targetSpeedFactor = 0, !.riskTolerance = 0]
         = [before[t] EXCEPT !.targetSpeedFactor = 0, !.riskTolerance = 0]

TunedBy(k, bot) ==
  BotUpdate(botControllers[k], bot,
            CallerPlayers(harness.situation, harness.profileType),
            defaultSegment, harness.rngs[k], BOT_PROFILES).profiles

RatchetStep ==
  /\ Ratchets(BOT_PROFILES, BOT_PROFILES')
  /\ \A k \in 1..Len(botControllers) :
       \A bot \in StunVariants(CallerBot(harness.situation,
                                         harness.profileType)) :
         \A after \in {TunedBy(k, bot)} :
           /\ Ratchets(BOT_PROFILES, after)
           /\ \A t \in DOMAIN BOT_PROFILES :
                after[t] # BOT_PROFILES[t] =>
                  /\ t = botControllers[k].profileType
                  /\ MayAdapt(botControllers[k], bot,
                              CallerPlayers(harness.situation,
                                            harness.profileType),
                              BOT_PROFILES)
  /\ BOT_PROFILES' # BOT_PROFILES =>
       \E k \in 1..Len(botControllers) :
         /\ Len(harness'.outputs[k]) = Len(harness.outputs[k]) + 1
         /\ MayAdapt(botControllers[k],
                     CallerBot(harness.situation, harness.profileType),
                     CallerPlayers(harness.situation, harness.profileType),
                     BOT_PROFILES)

C22_AdaptiveRatchet == [][RatchetStep]_vars

\* an adaptive controller, the human 150 ahead of its bot: after its updates
\* both fields have been raised and riskTolerance stands at 1
C22_Witness ==
  /\ Len(botControllers) = 1
  /\ harness.profileType = "adaptive"
  /\ harness.situation = "ahead"
  /\ Len(harness.outputs[1]) >= 6
  /\ BOT_PROFILES["adaptive"].targetSpeedFactor = 100
  /\ BOT_PROFILES["adaptive"].riskTolerance = 100


\* ---------------------------------------------------------------------------
\* C23: the range of nextInt.  Every value nextInt(min, max) has returned
\* is an integer r with min <= r < max, and the value of next() in every
\* state of the generator is below 1.
AllOnes == <<Half - 1, Half - 1>>

C23_NextIntInRange ==
  /\ \A k \in 1..Len(harness.values) :
       /\ harness.min <= harness.values[k]
       /\ harness.values[k] < harness.max
  /\ (harness.draws > 0 \/ harness.values # <<>>) => harness.rng # AllOnes

\* the generator of seed 653637408 on its first call: the state is
\* 0xFFFFFFFF, next() is 1 and nextInt(0, 10) has returned 10
C23_ReturnsMax ==
  /\ harness.seed = 653637408
  /\ harness.draws = 0
  /\ harness.min = 0 /\ harness.max = 10
  /\ harness.rng = AllOnes
  /\ harness.values = <<10>>


\* ---------------------------------------------------------------------------
\* C24, as stated: for one position, field size and match length, the score
\* of every finish time on the tick grid is strictly higher than the score
\* of every later one.
C24_Original ==
  \A k \in 1..(Len(harness.scores) - 1) :
    harness.scores[k] > harness.scores[Len(harness.scores)]

\* twelve ticks, 0.2 s
BonusStep == TicksPerSecond \div 5

\* C24: for one position, field size and match length, the score of a
\* finish time on the tick grid is never lower than the score of a later
\* one, and it is strictly higher when the later one is at least 0.2 s
\* later and not beyond the match length.
C24_ScoreMonotonic ==
  \A k \in 1..(Len(harness.scores) - 1) :
    /\ harness.scores[k] >= harness.scores[Len(harness.scores)]
    /\ (/\ Len(harness.scores) - k >= BonusStep
        /\ DLe(harness.time, DQuarters(harness.matchLength)))
         => harness.scores[k] > harness.scores[Len(harness.scores)]

\* first place of eight, 45 s: the scores of the finish times one tick
\* apart are equal, those of the times 0.2 s apart differ, and the time has
\* gone past a tenth of a second at which the bonus falls
C24_Witness ==
  /\ harness.position = 1 /\ harness.totalPlayers = 8
  /\ harness.matchLength = 180
  /\ Len(harness.scores) > BonusStep
  /\ harness.scores[Len(harness.scores)]
       = harness.scores[Len(harness.scores) - 1]
  /\ harness.scores[Len(harness.scores)]
       < harness.scores[Len(harness.scores) - BonusStep]
  /\ harness.scores[Len(harness.scores)] < harness.scores[1]


\* ---------------------------------------------------------------------------
\* C25: the replay store.  After every awaited saveReplay or deleteReplay
\* the index has at most 20 entries, a later entry is not more recent than
\* an earlier one, loadReplay returns a replay for the id of every entry,
\* and every stored replay has an entry (a replay whose entry was dropped
\* or deleted is not stored).
IndexedIds(store) == {store.index[k].id : k \in 1..Len(store.index)}
StoredIds(store) == {store.items[k].id : k \in 1..Len(store.items)}

C25_StoreConsistent ==
  /\ Len(localStorage.index) <= 20
  /\ \A i, j \in 1..Len(localStorage.index) :
       i < j => localStorage.index[i].date >= localStorage.index[j].date
  /\ \A id \in IndexedIds(localStorage) : loadReplay(localStorage, id) # Null
  /\ StoredIds(localStorage) \subseteq IndexedIds(localStorage)

\* an id was saved twice and its older entry has been dropped from a full
\* index: the id is still in the index and loadReplay returns null for it
C25_IndexedNotStored ==
  /\ harness.repeats = 1
  /\ Len(localStorage.index) = 20
  /\ \E id \in IndexedIds(localStorage) : loadReplay(localStorage, id) = Null


\* ---------------------------------------------------------------------------
\* C26, as stated: applyObstacleEffect(player, 'barrel') on an unshielded
\* player with forwardSpeed 200 leaves forwardSpeed 140 and a stunTimer
\* above 0.
BarrelOnTestPlayer ==
  /\ harness.type = "barrel"
  /\ ~harness.before.hasShield
  /\ harness.before.forwardSpeed = 200 * SpeedScale

C27_NeverJumpingAndStunned ==
  scene = "GameScene" =>
    \A i \in 1..Len(players) :
      ~(players[i].isJumping /\ DPos(players[i].stunTimer))

\* after a tick a player is in the air within collision distance of another
\* player who is not, both unfinished, and neither has been stunned
C27_Witness ==
  /\ scene = "GameScene" /\ tickCount > 0 /\ ~gameOver
  /\ \E i, j \in 1..Len(players) :
       /\ i # j
       /\ players[i].isJumping /\ ~players[j].isJumping
       /\ ~players[i].finished /\ ~players[j].finished
       /\ checkPlayerCollision([players[i] EXCEPT !.isJumping = FALSE],
                               players[j])
       /\ ~DPos(players[i].stunTimer) /\ ~DPos(players[j].stunTimer)


\* ---------------------------------------------------------------------------
\* C28: avoidObstacle is never entered.  The state of every controller is
\* race, chase, usePowerup or recover, and so is the state after the update
\* of every bot that takes its turn in a tick, for that bot as it is,
\* stunned, with its stun over and holding a shield.
EnteredStates == {"race", "chase", "usePowerup", "recover"}

C28_NoAvoidObstacle ==
  /\ \A b \in DOMAIN botControllers :
       botControllers[b].state \in EnteredStates
  /\ Ticking =>
       \A b \in 1..Len(players) :
         (players[b].isBot /\ ~players[b].finished) =>
           \A bot \in StunVariants(players[b]) \cup {WithShield(players[b])} :
             StateAfterUpdate(b, AtTurn(b), bot) \in EnteredStates

\* a tick has run and a bot has an obstacle that is not collected ahead of
\* it, nearer than the obstacleAvoidRange of its profile, and its controller
\* is in race
C28_Witness ==
  /\ Ticking /\ tickCount > 0
  /\ \E b \in 1..Len(players) :
       /\ players[b].isBot /\ ~players[b].finished
       /\ botControllers[b].state = "race"
       /\ \E k \in 1..Len(worldObjects) :
            /\ worldObjects[k].type = "obstacle"
            /\ ~worldObjects[k].collected
            /\ worldObjects[k].distance > players[b].distanceTraveled
            /\ worldObjects[k].distance - players[b].distanceTraveled
                 < getProfile(botControllers[b], BOT_PROFILES).obstacleAvoidRange
                     * PosScale


\* ---------------------------------------------------------------------------
\* C29: a world object takes effect in at most one tick.  In every tick the
\* collision pass leaves a collected object collected, collects an object
\* only if an unfinished player on the slide is on it, and changes a player
\* only if that player is unfinished, on the slide and on an object that
\* was not collected before the tick and is collected after it.
BeforeObjects ==
  CollisionLoop(
    BotsFrom(1, AfterHuman(TickInput, HumanIndex(players)), track).players,
    RosterPairs(Len(players)), 1)

OnObject(p, k) == HitsObject(p, worldObjects[k], track[1].lanes)

OneTickOnly(pre, post) ==
  /\ \A k \in 1..Len(worldObjects) :
       /\ worldObjects[k].collected => post.worldObjects[k].collected
       /\ (post.worldObjects[k].collected /\ ~worldObjects[k].collected) =>
            \E i \in 1..Len(pre) : OnObject(pre[i], k)
  /\ \A i \in 1..Len(pre) :
       post.players[i] # pre[i] =>
         /\ ~pre[i].finished /\ ~pre[i].isJumping
         /\ \E k \in 1..Len(worldObjects) :
              /\ ~worldObjects[k].collected
              /\ post.worldObjects[k].collected
              /\ OnObject(pre[i], k)

C29_ObjectsOnce ==
  Ticking =>
    \A pre \in {BeforeObjects} :
      OneTickOnly(pre, checkWorldObjectCollisions(pre, worldObjects, track))

\* a tick is due in which a player on the slide is still on an object that
\* was collected in an earlier tick, and a player in the air is on an object
\* that is not collected
C29_Witness ==
  /\ Ticking /\ tickCount > 0
  /\ \E pre \in {BeforeObjects} :
       /\ \E i \in 1..Len(pre), k \in 1..Len(worldObjects) :
            worldObjects[k].collected /\ OnObject(pre[i], k)
       /\ \E i \in 1..Len(pre), k \in 1..Len(worldObjects) :
            /\ ~worldObjects[k].collected /\ pre[i].isJumping
            /\ OnObject([pre[i] EXCEPT !.isJumping = FALSE], k)


\* ---------------------------------------------------------------------------
\* C30: concurrent saves lose nothing.  When no call is in flight any more
\* and the last two calls were in flight together, on different ids, every
\* id saved by them is in the index and loadReplay returns its replay.
Overlapped ==
  /\ harness.inflight = <<>>
  /\ Len(harness.batch) = 2
  /\ harness.batch[1].id # harness.batch[2].id

SavedIn(batch) ==
  {batch[k].id : k \in {j \in 1..Len(batch) : batch[j].op = "save"}}

C30_ConcurrentSavesKept ==
  Overlapped =>
    \A id \in SavedIn(harness.batch) :
      /\ id \in IndexedIds(localStorage)
      /\ loadReplay(localStorage, id) # Null

\* two saves of different ids were in flight together and have completed:
\* the replay of the first is stored and its id is not in the index
C30_LostSave ==
  /\ Overlapped
  /\ harness.batch[1].op = "save" /\ harness.batch[2].op = "save"
  /\ harness.batch[1].id \notin IndexedIds(localStorage)
  /\ loadReplay(localStorage, harness.batch[1].id) # Null
  /\ harness.batch[2].id \in IndexedIds(localStorage)

====
